---- MODULE Spec2Model ----
(***************************************************************************)
(* Model of the transport/session core of the flanks client library        *)
(* (flanks/connection.py): the token lifecycle (_ensure_token,             *)
(* _refresh_token), the single request (_execute), and api_call with its   *)
(* Server-retry loop and its 401 recovery.                                 *)
(* On top of it, the pagination driver (flanks/base.py, _paginate) with    *)
(* its consumer, and specifications of concurrent calls on one transport.  *)
(*                                                                         *)
(* Every await of the code that reaches the network is a suspension point  *)
(* and therefore a separate step: a call sends a request in one step and   *)
(* consumes the answer in a later one.  The remote API is the environment: *)
(* it answers every request with any status of Statuses, or the transport  *)
(* fails.  Response bodies are JSON values, as the wire protocol fixes.    *)
(* Time is in whole seconds.                                               *)
(***************************************************************************)
EXTENDS Integers, Sequences, FiniteSets, TLC

\* ---------------------------------------------------------------- bounds
MaxRetries == 2        \* largest configured retries
MaxTime    == 2        \* no call starts, and no round trip lingers, after this time
MaxPages   == 3        \* most page requests of one pagination
MaxItems   == 2        \* most items on one page
MaxAccess  == 2        \* most reads of client.transport by the user
MaxCloses  == 2        \* most calls of client.close() by the user
MaxRuns    == 3        \* most invocations of _paginate on one client

\* ------------------------------------------------------ program constants
TokenMargin    == 300  \* _ensure_token: refresh if the token expires within 5 minutes
DefaultRetries == 1    \* FlanksConnection.__init__ retries
DefaultBackoff == 1    \* FlanksConnection.__init__ retry_backoff

\* --------------------------------------------------------- the environment
Calls       == {"c1", "c2", "c3"}   \* the api_call invocations that may be in progress
NoToken     == "None"
Tokens      == {"tokA", "tokB"}
ExpiresIns  == {TokenMargin + 1, TokenMargin + 60}
Backoffs    == {DefaultBackoff, 2}
NetFail     == 0       \* no HTTP response: the transport failed
NoStatus    == NetFail \* status_code=None
Statuses    == {200, 400, 401, 403, 404, 500, 503}
ExchangeStatuses == {200, 403, 500}
Causes      == {"ConnectError", "ReadTimeout"}
Bodies      == [shape : {"dict", "list"}, data : {"a"}]
NoBody      == [shape |-> "none", data |-> ""]
ResponseModels == {"None", "Model", "list[Model]"}

NoReply     == [status |-> NetFail, body |-> NoBody, cause |-> ""]

\* A reply to one HTTP request: a completed response, or a transport failure.
Replies(statuses) ==
    [status : statuses, body : Bodies, cause : {""}]
        \cup [status : {NetFail}, body : {NoBody}, cause : Causes]

VARIABLES
    retries,          \* self._retries
    retry_backoff,    \* self._retry_backoff
    accessToken,      \* self._access_token
    tokenExpiresAt,   \* self._token_expires_at
    now,              \* time.time()
    callers,          \* the call slots in use: the concurrent callers of the transport
    pc,               \* per call: where the coroutine is suspended
    attempt,          \* per call: loop variable of api_call
    last_error,       \* per call: last_error of api_call
    response_model,   \* per call: the response_model argument
    delay,            \* per call: argument of the asyncio.sleep in progress
    outcome,          \* per call: what api_call returned or raised
    last_reply,       \* per call: the reply to the latest resource request
    log               \* per call: history of the network traffic and sleeps of the call

tvars == <<retries, retry_backoff, accessToken, tokenExpiresAt, now, callers,
           pc, attempt, last_error, response_model, delay, outcome, last_reply, log>>

config == <<retries, retry_backoff, callers>>

\* The pagination driver (flanks/base.py, BaseClient._paginate) and its consumer.
VARIABLES
    req_body,         \* _paginate: the body argument, the request template
    gen,              \* where the async generator _paginate stands
    page_token,       \* _paginate: local page_token
    response,         \* _paginate: local response
    idx,              \* _paginate: how many items the for loop has taken from response
    gen_error,        \* what left the generator as an exception
    yielded,          \* the items the consumer has received, in order
    asks,             \* how many times the consumer has asked for an item
    sent,             \* the payloads of the page requests, in order
    pages             \* the pages received, in order

pvars == <<req_body, gen, page_token, response, idx, gen_error, yielded, asks, sent, pages>>

\* What the page request in progress puts on the wire.
VARIABLES
    wire,             \* the JSON bodies of the HTTP requests of the latest page request
    traffic           \* the replies to them, once the page request is over

wvars == <<wire, traffic>>

\* The facade (flanks/client.py, FlanksClient), the connection handle of its
\* transport (FlanksConnection._http) and the code that uses the facade.
VARIABLES
    arg_id,           \* __init__: the client_id argument
    arg_secret,       \* __init__: the client_secret argument
    env_id,           \* os.environ.get("FLANKS_CLIENT_ID")
    env_secret,       \* os.environ.get("FLANKS_CLIENT_SECRET")
    client,           \* what became of FlanksClient(...)
    client_id,        \* self._client_id
    client_secret,    \* self._client_secret
    has_transport,    \* "transport" in self.__dict__
    transport_made,   \* how many FlanksConnection objects were created
    http,             \* the connection handle of the transport
    http_made,        \* how many httpx.AsyncClient objects were created
    released,         \* how many times a handle was released
    scope,            \* where the async with block stands
    exit_path,        \* how the block was left
    accesses,         \* how many times client.transport was read by the user
    closes,           \* how many times client.close() was called
    page_response,    \* list_sessions_page: local response
    paged             \* list_sessions_page: the PagedResponse returned

fvars == <<arg_id, arg_secret, env_id, env_secret, client, client_id, client_secret,
           has_transport, transport_made, http, http_made, released, scope, exit_path,
           accesses, closes, page_response, paged>>

\* A second iteration on the same client: the consumer holds two async
\* generators of _paginate and asks the one or the other.
VARIABLES
    parked,           \* the frame of the generator the consumer is not asking now
    turn,             \* which of the two generators the driver variables belong to
    runs              \* how many times _paginate has been invoked on the client

ivars == <<parked, turn, runs>>

\* Everything but the transport and the pagination driver.
ovars == <<wvars, fvars, ivars>>

vars == <<tvars, pvars, wvars, fvars, ivars>>

\* --------------------------------------------------------------- outcomes
NoError  == [kind |-> "none", cls |-> "", status |-> 0, body |-> NoBody, cause |-> ""]
Pending  == [kind |-> "pending", cls |-> "", status |-> 0, body |-> NoBody, cause |-> ""]

\* raise cls(msg, status_code=status, response_body=body) / cause=cause
Raise(cls, status, body, cause) ==
    [kind |-> "error", cls |-> cls, status |-> status, body |-> body, cause |-> cause]

\* return value
Return(cls, body) ==
    [kind |-> "ok", cls |-> cls, status |-> 0, body |-> body, cause |-> ""]

\* The classified errors of flanks.exceptions and what is not one of them.
Taxonomy == {"FlanksAuthError", "FlanksValidationError", "FlanksNotFoundError",
             "FlanksServerError", "FlanksNetworkError", "FlanksAPIError"}

\* except <handler>: does an exception of class cls match?  The four API
\* errors are sibling subclasses of FlanksAPIError; FlanksNetworkError is not
\* an API error.
IsInstance(cls, handler) == cls = handler

\* ------------------------------------------------------------ history log
\* The token tok expiring at exp is usable at time t: it exists and expires
\* more than the safety margin after t.
TokenUsable(tok, exp, t) == tok # NoToken /\ exp - t > TokenMargin

\* A resource request, with the bearer it carries and whether the token
\* fields were usable at the moment it was sent.
ReqEv(tok, exp, t) ==
    [ev |-> "request", st |-> 0, tok |-> tok, usable |-> TokenUsable(tok, exp, t), wait |-> 0]
RespEv(st)  == [ev |-> "response", st |-> st, tok |-> NoToken, usable |-> FALSE, wait |-> 0]
ExchEv      == [ev |-> "exchange", st |-> 0, tok |-> NoToken, usable |-> FALSE, wait |-> 0]
ExchRespEv(st, tok) ==
    [ev |-> "exchange_response", st |-> st, tok |-> tok, usable |-> FALSE, wait |-> 0]
SleepEv(d)  == [ev |-> "sleep", st |-> 0, tok |-> NoToken, usable |-> FALSE, wait |-> d]

\* ---------------------------------------------------------- pure functions
\* NeedsRefresh with the comparison inverted: refreshes while the token is good.
NeedsRefreshInverted(t, expiresAt) == t < expiresAt - TokenMargin

\* _ensure_token: time.time() > self._token_expires_at - 300
NeedsRefresh(t, expiresAt) == t > expiresAt - TokenMargin

\* Execute without the 404 clause: a 404 falls through to the success path.
ExecuteNoNotFound(r) ==
    IF r.status = NetFail THEN Raise("FlanksNetworkError", NoStatus, NoBody, r.cause)
    ELSE IF r.status = 401 THEN Raise("FlanksAuthError", 401, r.body, "")
    ELSE IF r.status = 400 THEN Raise("FlanksValidationError", 400, r.body, "")
    ELSE IF r.status >= 500 THEN Raise("FlanksServerError", r.status, r.body, "")
    ELSE Return("json", r.body)

\* _execute: the outcome of one request, from the reply it gets.
Execute(r) ==
    IF r.status = NetFail THEN Raise("FlanksNetworkError", NoStatus, NoBody, r.cause)
    ELSE IF r.status = 401 THEN Raise("FlanksAuthError", 401, r.body, "")
    ELSE IF r.status = 400 THEN Raise("FlanksValidationError", 400, r.body, "")
    ELSE IF r.status = 404 THEN Raise("FlanksNotFoundError", 404, r.body, "")
    ELSE IF r.status >= 500 THEN Raise("FlanksServerError", r.status, r.body, "")
    ELSE Return("json", r.body)

\* ValidateResponse that never looks at the shape of the JSON.
ValidateResponseUnchecked(result, model) ==
    IF model = "None" THEN Return("json", result) ELSE Return(model, result)

\* _validate_response
ValidateResponse(result, model) ==
    IF model = "None" THEN Return("json", result)
    ELSE IF model = "list[Model]"
         THEN IF result.shape # "list"
              THEN Raise("TypeError", NoStatus, result, "")
              ELSE Return("list[Model]", result)
         ELSE IF result.shape # "dict"
              THEN Raise("TypeError", NoStatus, result, "")
              ELSE Return("Model", result)

\* SleepsAfter with <= for <: a delay follows the final attempt too.
SleepsAfterFinal(att, r) == att <= r

\* api_call: if attempt < self._retries (sleep before the next attempt)
SleepsAfter(att, r) == att < r

\* BackoffDelay with the attempt counted from 1.
BackoffDelayFromOne(backoff, att) == backoff * (2 ^ (att + 1))

\* api_call: self._retry_backoff * (2**attempt)
BackoffDelay(backoff, att) == backoff * (2 ^ att)

\* HasNextAttempt for range(self._retries): one attempt short.
HasNextAttemptShort(att, r) == att + 1 < r

\* api_call: for attempt in range(self._retries + 1) has a next value after att
HasNextAttempt(att, r) == att + 1 < r + 1

\* Handler without the except FlanksAuthError clause.
HandlerNoRefresh(cls) ==
    IF IsInstance(cls, "FlanksServerError") THEN "retry"
    ELSE "propagate"

\* Handler without the except FlanksServerError clause.
HandlerNoRetry(cls) ==
    IF IsInstance(cls, "FlanksAuthError") THEN "refresh"
    ELSE "propagate"

\* Handler whose retry clause also catches FlanksNetworkError.
HandlerRetriesNetwork(cls) ==
    IF IsInstance(cls, "FlanksServerError") \/ IsInstance(cls, "FlanksNetworkError")
    THEN "retry"
    ELSE IF IsInstance(cls, "FlanksAuthError") THEN "refresh"
    ELSE "propagate"

\* api_call: which except clause of the loop body handles an exception
Handler(cls) ==
    IF IsInstance(cls, "FlanksServerError") THEN "retry"
    ELSE IF IsInstance(cls, "FlanksAuthError") THEN "refresh"
    ELSE "propagate"

\* RefreshFailure without the 403 clause: raise_for_status handles the 403.
RefreshFailureNo403(r) ==
    IF r.status = NetFail THEN Raise("httpx.TransportError", NoStatus, NoBody, r.cause)
    ELSE Raise("httpx.HTTPStatusError", r.status, r.body, "")

\* _refresh_token: what a failed exchange raises.  The transport failure of
\* self._http.post and the HTTPStatusError of raise_for_status are not caught.
RefreshFailure(r) ==
    IF r.status = NetFail THEN Raise("httpx.TransportError", NoStatus, NoBody, r.cause)
    ELSE IF r.status = 403 THEN Raise("FlanksAuthError", 403, r.body, "")
    ELSE Raise("httpx.HTTPStatusError", r.status, r.body, "")

\* ExchangeOk without raise_for_status: every answer of the token endpoint
\* that is not a 403 passes.
ExchangeOkUnchecked(r) == r.status # 403

\* _refresh_token: the exchange succeeded (no 403, raise_for_status passes)
ExchangeOk(r) == r.status # NetFail /\ r.status >= 200 /\ r.status < 300

\* Replies of the token endpoint.
ExchangeReplies ==
    [status : {200}, body : {NoBody}, cause : {""},
     access_token : Tokens, expires_in : ExpiresIns]
      \cup [status : ExchangeStatuses \ {200}, body : Bodies, cause : {""},
            access_token : {NoToken}, expires_in : {0}]
      \cup [status : {NetFail}, body : {NoBody}, cause : Causes,
            access_token : {NoToken}, expires_in : {0}]

\* ------------------------------------------------- pagination: the values
DriverCall == "c1"     \* the api_call a pagination has in progress

\* A cursor value: None, or a string of val characters ("" when val = 0).
\* The server names the cursor after page k CursorStr(k).
PyNone       == [kind |-> "null", val |-> 0]
EmptyStr     == [kind |-> "str", val |-> 0]
CursorStr(k) == [kind |-> "str", val |-> k]

\* Truthy as "is not None": the empty string counts as a cursor.
TruthyNotNone(v) == v.kind # "null"

\* bool(v) of a cursor value: None and "" are false.
Truthy(v) == v.kind = "str" /\ v.val # 0

ItemKey  == "items"             \* the item_key argument
TokenKey == "next_page_token"

\* The request templates: without and with a page_token field of their own.
Templates == {[query |-> "q"], [query |-> "q", page_token |-> CursorStr(MaxPages + 1)]}

\* Payload merged the other way round: a page_token of the template wins.
PayloadTemplateWins(b, tok) ==
    [k \in DOMAIN b \cup {"page_token"} |-> IF k \in DOMAIN b THEN b[k] ELSE tok]

\* WireBody with the test on the method inverted.
WireBodyOnGet(method, b) == IF method = "GET" THEN b ELSE PyNone

\* _execute: json=body if method != "GET" else None
WireBody(method, b) == IF method # "GET" THEN b ELSE PyNone

\* {**body, "page_token": page_token}
Payload(b, tok) ==
    [k \in DOMAIN b \cup {"page_token"} |-> IF k = "page_token" THEN tok ELSE b[k]]

\* The raw items of the page that answers request k: n items, each its own.
PageItems(k, n) == [i \in 1 .. n |-> [page |-> k, pos |-> i]]

\* A decoded JSON body: type says whether it is an object or an array, keys
\* which fields the object has.
NoResponse == [type |-> "none", keys |-> {}, items |-> <<>>, next |-> PyNone]

\* What the server may answer to page request k: an object with or without
\* the items field and the cursor field, or an array.
ServerPages(k) ==
    {[type |-> "dict", keys |-> ks,
      items |-> IF ItemKey \in ks THEN PageItems(k, n) ELSE <<>>,
      next |-> IF TokenKey \in ks THEN v ELSE PyNone] :
        ks \in SUBSET {ItemKey, TokenKey}, n \in 0 .. MaxItems,
        v \in {PyNone, EmptyStr, CursorStr(k)}}
    \cup {[type |-> "list", keys |-> {}, items |-> PageItems(k, n), next |-> PyNone] :
             n \in 0 .. MaxItems}

\* isinstance(response, dict)
IsDict(r) == r.type = "dict"

\* PageCheck that takes whatever arrives as a page.
PageCheckLenient(r) == "ok"

\* What stops _paginate before the for loop: a response that is not a dict
\* (TypeError), or response[item_key] on a dict without that key (KeyError).
PageCheck(r) ==
    IF ~IsDict(r) THEN "TypeError"
    ELSE IF ItemKey \notin r.keys THEN "KeyError"
    ELSE "ok"

\* response.get("next_page_token")
GetToken(r) == IF TokenKey \in r.keys THEN r.next ELSE PyNone

\* model.model_validate(item)
Decode(item) == [model |-> "T", raw |-> item]

\* ------------------------------------------------------ the paged result
\* No PagedResponse has been built.
NoPaged == [items |-> <<>>, next_page_token |-> PyNone, built |-> FALSE]

\* PagedFrom that never passes the cursor on.
PagedFromNoCursor(r) ==
    [items |-> [i \in 1 .. Len(r.items) |-> Decode(r.items[i])],
     next_page_token |-> PyNone, built |-> TRUE]

\* list_sessions_page: PagedResponse(items=[model_validate(item) ...],
\* next_page_token=response.get("next_page_token"))
PagedFrom(r) ==
    [items |-> [i \in 1 .. Len(r.items) |-> Decode(r.items[i])],
     next_page_token |-> GetToken(r), built |-> TRUE]

\* PagedResponse.has_next: the cursor is a non-empty string.
HasNext(p) == p.next_page_token.kind = "str" /\ p.next_page_token.val > 0

\* ------------------------------------------------------ facade: the values
FacadeCall == "c1"     \* the api_call made through the facade

\* A string of k characters.
PyStr(k) == [kind |-> "str", val |-> k]

\* What an argument or an environment variable may hold: nothing, the empty
\* string, a value (arguments and environment hold different values).
ArgValues == {PyNone, EmptyStr, PyStr(1)}
EnvValues == {PyNone, EmptyStr, PyStr(2)}

\* How the async with block may be left.
ExitPaths == {"normal", "error", "cancelled"}

\* Resolve with the environment variable first.
ResolveEnvFirst(arg, env) == IF Truthy(env) THEN env ELSE arg

\* client_id or os.environ.get("FLANKS_CLIENT_ID")
Resolve(arg, env) == IF Truthy(arg) THEN arg ELSE env

\* not resolved_client_id or not resolved_client_secret
MissingCredentials(id, secret) == ~Truthy(id) \/ ~Truthy(secret)

\* A property that builds its value on every read.
CachedCreateAlways(cached, n) == n + 1

\* functools.cached_property: the value is built on the first read only; n
\* counts the values built.
CachedCreate(cached, n) == IF cached THEN n ELSE n + 1

\* aclose that releases whenever it is called.
HttpAcloseAgain(h, n) == n + 1

\* httpx.AsyncClient.aclose: releases the connections unless the client is
\* closed already; n counts the releases.
HttpAclose(h, n) == IF h = "closed" THEN n ELSE n + 1

\* ------------------------------------------------------------------- Init
\* FlanksConnection.__init__: no token, nothing in progress.
InitTransport ==
    /\ retries \in 0 .. MaxRetries
    /\ retry_backoff \in Backoffs
    /\ accessToken = NoToken
    /\ tokenExpiresAt = 0
    /\ now = 0
    /\ pc = [c \in Calls |-> "idle"]
    /\ attempt = [c \in Calls |-> 0]
    /\ last_error = [c \in Calls |-> NoError]
    /\ response_model = [c \in Calls |-> "None"]
    /\ delay = [c \in Calls |-> 0]
    /\ outcome = [c \in Calls |-> Pending]
    /\ last_reply = [c \in Calls |-> NoReply]
    /\ log = [c \in Calls |-> <<>>]

\* The locals of a generator of _paginate that has not run yet, for the
\* template b; st says whether the generator exists.
FreshFrame(b, st) ==
    [req_body |-> b, gen |-> st, page_token |-> PyNone, response |-> NoResponse,
     idx |-> 0, gen_error |-> NoError, yielded |-> <<>>, asks |-> 0,
     sent |-> <<>>, pages |-> <<>>]

\* The consumer holds no second generator.
NoSecond ==
    /\ parked = FreshFrame([query |-> "q"], "absent")
    /\ turn = "A"
    /\ runs = 1

\* No pagination exists.
NoDriver ==
    /\ NoSecond
    /\ req_body = [query |-> "q"]
    /\ gen = "absent"
    /\ page_token = PyNone
    /\ response = NoResponse
    /\ idx = 0
    /\ gen_error = NoError
    /\ yielded = <<>>
    /\ asks = 0
    /\ sent = <<>>
    /\ pages = <<>>
    /\ wire = <<>>
    /\ traffic = <<>>

\* No FlanksClient has been constructed.
FacadeUnbuilt ==
    /\ client = "none"
    /\ client_id = PyNone
    /\ client_secret = PyNone
    /\ has_transport = FALSE
    /\ transport_made = 0
    /\ http = "absent"
    /\ http_made = 0
    /\ released = 0
    /\ scope = "outside"
    /\ exit_path = "none"
    /\ accesses = 0
    /\ closes = 0
    /\ page_response = NoResponse
    /\ paged = NoPaged

\* No facade exists: the transport is used directly.
NoFacade ==
    /\ arg_id = PyNone
    /\ arg_secret = PyNone
    /\ env_id = PyNone
    /\ env_secret = PyNone
    /\ FacadeUnbuilt

\* One caller at a time uses the transport.
Init == InitTransport /\ callers = {"c1"} /\ NoDriver /\ NoFacade

InProgress == {c \in Calls : pc[c] \notin {"idle", "done"}}

\* ---------------------------------------------------------------- actions
\* Start with a shared in-flight refresh: a call that finds an exchange in
\* progress does not start one of its own.
StartCoalesced(c) ==
    /\ pc[c] = "idle"
    /\ c \in callers
    /\ now <= MaxTime
    /\ \E m \in ResponseModels : response_model' = [response_model EXCEPT ![c] = m]
    /\ IF NeedsRefresh(now, tokenExpiresAt) /\ \A d \in Calls : pc[d] # "ensure_token"
       THEN /\ pc' = [pc EXCEPT ![c] = "ensure_token"]
            /\ log' = [log EXCEPT ![c] = <<ExchEv>>]
            /\ UNCHANGED <<attempt, last_error>>
       ELSE /\ pc' = [pc EXCEPT ![c] = "execute"]
            /\ attempt' = [attempt EXCEPT ![c] = 0]
            /\ last_error' = [last_error EXCEPT ![c] = NoError]
            /\ log' = [log EXCEPT ![c] = <<ReqEv(accessToken, tokenExpiresAt, now)>>]
    /\ outcome' = [outcome EXCEPT ![c] = Pending]
    /\ UNCHANGED <<config, accessToken, tokenExpiresAt, now, delay, last_reply>>

\* api_call is entered: _ensure_token, then either the token exchange is
\* awaited or the loop starts and the first request is sent.
Start(c) ==
    /\ pc[c] = "idle"
    /\ c \in callers
    /\ now <= MaxTime
    /\ \E m \in ResponseModels : response_model' = [response_model EXCEPT ![c] = m]
    /\ IF NeedsRefresh(now, tokenExpiresAt)
       THEN /\ pc' = [pc EXCEPT ![c] = "ensure_token"]
            /\ log' = [log EXCEPT ![c] = <<ExchEv>>]
            /\ UNCHANGED <<attempt, last_error>>
       ELSE /\ pc' = [pc EXCEPT ![c] = "execute"]
            /\ attempt' = [attempt EXCEPT ![c] = 0]
            /\ last_error' = [last_error EXCEPT ![c] = NoError]
            /\ log' = [log EXCEPT ![c] = <<ReqEv(accessToken, tokenExpiresAt, now)>>]
    /\ outcome' = [outcome EXCEPT ![c] = Pending]
    /\ UNCHANGED <<config, accessToken, tokenExpiresAt, now, delay, last_reply>>

\* The call ends: api_call returns or raises o.
Ends(c, o, evs) ==
    /\ pc' = [pc EXCEPT ![c] = "done"]
    /\ outcome' = [outcome EXCEPT ![c] = o]
    /\ log' = [log EXCEPT ![c] = @ \o evs]

\* StoreToken that stores the token and leaves the expiry for later.
StoreTokenOnly(r) ==
    /\ accessToken' = r.access_token
    /\ UNCHANGED tokenExpiresAt

\* _refresh_token stores the token of a successful exchange r.
StoreToken(r) ==
    /\ accessToken' = r.access_token
    /\ tokenExpiresAt' = now + r.expires_in

\* The exchange awaited by _ensure_token is answered.
EnsureResponse(c) ==
    /\ pc[c] = "ensure_token"
    /\ \E r \in ExchangeReplies :
         IF ExchangeOk(r)
         THEN /\ StoreToken(r)
              /\ pc' = [pc EXCEPT ![c] = "execute"]
              /\ attempt' = [attempt EXCEPT ![c] = 0]
              /\ last_error' = [last_error EXCEPT ![c] = NoError]
              /\ log' = [log EXCEPT ![c] = @ \o
                            <<ExchRespEv(r.status, r.access_token),
                              ReqEv(r.access_token, now + r.expires_in, now)>>]
              /\ UNCHANGED outcome
         ELSE /\ Ends(c, RefreshFailure(r), <<ExchRespEv(r.status, NoToken)>>)
              /\ UNCHANGED <<accessToken, tokenExpiresAt, attempt, last_error>>
    /\ UNCHANGED <<config, now, response_model, delay, last_reply>>

\* NextAttempt after a loop that never recorded its error in last_error.
NextAttemptForgetsError(c, err, t, evs) ==
    IF HasNextAttempt(attempt[c], retries)
    THEN /\ attempt' = [attempt EXCEPT ![c] = @ + 1]
         /\ pc' = [pc EXCEPT ![c] = "execute"]
         /\ log' = [log EXCEPT ![c] = @ \o evs \o <<ReqEv(accessToken, tokenExpiresAt, t)>>]
         /\ UNCHANGED outcome
    ELSE /\ Ends(c, Raise("RuntimeError", NoStatus, NoBody, ""), evs)
         /\ UNCHANGED attempt

\* The loop of api_call moves past attempt[c]: the next attempt is sent, or
\* the loop is over and last_error is raised.
NextAttempt(c, err, t, evs) ==
    IF HasNextAttempt(attempt[c], retries)
    THEN /\ attempt' = [attempt EXCEPT ![c] = @ + 1]
         /\ pc' = [pc EXCEPT ![c] = "execute"]
         /\ log' = [log EXCEPT ![c] = @ \o evs \o <<ReqEv(accessToken, tokenExpiresAt, t)>>]
         /\ UNCHANGED outcome
    ELSE /\ Ends(c, IF err # NoError THEN err
                    ELSE Raise("RuntimeError", NoStatus, NoBody, ""), evs)
         /\ UNCHANGED attempt

\* The request of a loop attempt is answered.
ExecuteResponse(c) ==
    /\ pc[c] = "execute"
    /\ \E r \in Replies(Statuses) :
         LET e == Execute(r) IN
         /\ last_reply' = [last_reply EXCEPT ![c] = r]
         /\ IF e.kind = "ok"
            THEN /\ Ends(c, ValidateResponse(e.body, response_model[c]), <<RespEv(r.status)>>)
                 /\ UNCHANGED <<attempt, last_error, delay>>
            ELSE IF Handler(e.cls) = "retry"
            THEN /\ last_error' = [last_error EXCEPT ![c] = e]
                 /\ IF SleepsAfter(attempt[c], retries)
                    THEN /\ delay' = [delay EXCEPT ![c] = BackoffDelay(retry_backoff, attempt[c])]
                         /\ pc' = [pc EXCEPT ![c] = "sleep"]
                         /\ log' = [log EXCEPT ![c] = @ \o
                               <<RespEv(r.status),
                                 SleepEv(BackoffDelay(retry_backoff, attempt[c]))>>]
                         /\ UNCHANGED <<attempt, outcome>>
                    ELSE /\ NextAttempt(c, e, now, <<RespEv(r.status)>>)
                         /\ UNCHANGED delay
            ELSE IF Handler(e.cls) = "refresh"
            THEN /\ pc' = [pc EXCEPT ![c] = "refresh_token"]
                 /\ log' = [log EXCEPT ![c] = @ \o <<RespEv(r.status), ExchEv>>]
                 /\ UNCHANGED <<attempt, last_error, delay, outcome>>
            ELSE /\ Ends(c, e, <<RespEv(r.status)>>)
                 /\ UNCHANGED <<attempt, last_error, delay>>
    /\ UNCHANGED <<config, accessToken, tokenExpiresAt, now, response_model>>

\* Wake that drops the token before the next attempt.
WakeDropsToken(c) ==
    /\ pc[c] = "sleep"
    /\ now' = now + delay[c]
    /\ NextAttempt(c, last_error[c], now + delay[c], <<>>)
    /\ delay' = [delay EXCEPT ![c] = 0]
    /\ accessToken' = NoToken
    /\ tokenExpiresAt' = 0
    /\ UNCHANGED <<config, last_error, response_model, last_reply>>

\* asyncio.sleep returns: the loop goes on.
Wake(c) ==
    /\ pc[c] = "sleep"
    /\ now' = now + delay[c]
    /\ NextAttempt(c, last_error[c], now + delay[c], <<>>)
    /\ delay' = [delay EXCEPT ![c] = 0]
    /\ UNCHANGED <<config, accessToken, tokenExpiresAt, last_error, response_model,
                   last_reply>>

\* RefreshResponse that forgets the token when the exchange fails.
RefreshResponseClearsToken(c) ==
    /\ pc[c] = "refresh_token"
    /\ \E r \in ExchangeReplies :
         IF ExchangeOk(r)
         THEN /\ StoreToken(r)
              /\ pc' = [pc EXCEPT ![c] = "retry"]
              /\ log' = [log EXCEPT ![c] = @ \o
                            <<ExchRespEv(r.status, r.access_token),
                              ReqEv(r.access_token, now + r.expires_in, now)>>]
              /\ UNCHANGED outcome
         ELSE /\ Ends(c, RefreshFailure(r), <<ExchRespEv(r.status, NoToken)>>)
              /\ accessToken' = NoToken
              /\ tokenExpiresAt' = 0
    /\ UNCHANGED <<config, now, attempt, last_error, response_model, delay, last_reply>>

\* RefreshResponse whose repeated request still carries the token that was
\* held before the refresh.
RefreshResponseStaleBearer(c) ==
    /\ pc[c] = "refresh_token"
    /\ \E r \in ExchangeReplies :
         IF ExchangeOk(r)
         THEN /\ StoreToken(r)
              /\ pc' = [pc EXCEPT ![c] = "retry"]
              /\ log' = [log EXCEPT ![c] = @ \o
                            <<ExchRespEv(r.status, r.access_token),
                              ReqEv(accessToken, tokenExpiresAt, now)>>]
              /\ UNCHANGED outcome
         ELSE /\ Ends(c, RefreshFailure(r), <<ExchRespEv(r.status, NoToken)>>)
              /\ UNCHANGED <<accessToken, tokenExpiresAt>>
    /\ UNCHANGED <<config, now, attempt, last_error, response_model, delay, last_reply>>

\* The exchange of the refresh that follows a 401 is answered.
RefreshResponse(c) ==
    /\ pc[c] = "refresh_token"
    /\ \E r \in ExchangeReplies :
         IF ExchangeOk(r)
         THEN /\ StoreToken(r)
              /\ pc' = [pc EXCEPT ![c] = "retry"]
              /\ log' = [log EXCEPT ![c] = @ \o
                            <<ExchRespEv(r.status, r.access_token),
                              ReqEv(r.access_token, now + r.expires_in, now)>>]
              /\ UNCHANGED outcome
         ELSE /\ Ends(c, RefreshFailure(r), <<ExchRespEv(r.status, NoToken)>>)
              /\ UNCHANGED <<accessToken, tokenExpiresAt>>
    /\ UNCHANGED <<config, now, attempt, last_error, response_model, delay, last_reply>>

\* RetryResponse that answers a second 401 with another refresh.
RetryResponseRefreshesAgain(c) ==
    /\ pc[c] = "retry"
    /\ \E r \in Replies(Statuses) :
         LET e == Execute(r) IN
         /\ last_reply' = [last_reply EXCEPT ![c] = r]
         /\ IF e.kind = "error" /\ IsInstance(e.cls, "FlanksAuthError")
            THEN /\ pc' = [pc EXCEPT ![c] = "refresh_token"]
                 /\ log' = [log EXCEPT ![c] = @ \o <<RespEv(r.status), ExchEv>>]
                 /\ UNCHANGED outcome
            ELSE Ends(c, IF e.kind = "ok" THEN ValidateResponse(e.body, response_model[c])
                         ELSE e,
                      <<RespEv(r.status)>>)
    /\ UNCHANGED <<config, accessToken, tokenExpiresAt, now, attempt, last_error,
                   response_model, delay>>

\* The request repeated after the refresh is answered: whatever it raises
\* leaves api_call, no handler of the loop applies inside the except clause.
RetryResponse(c) ==
    /\ pc[c] = "retry"
    /\ \E r \in Replies(Statuses) :
         LET e == Execute(r) IN
         /\ last_reply' = [last_reply EXCEPT ![c] = r]
         /\ Ends(c, IF e.kind = "ok" THEN ValidateResponse(e.body, response_model[c]) ELSE e,
                 <<RespEv(r.status)>>)
    /\ UNCHANGED <<config, accessToken, tokenExpiresAt, now, attempt, last_error,
                   response_model, delay>>

\* The caller has received the outcome; the slot is free for another call.
Finish(c) ==
    /\ pc[c] = "done"
    /\ pc' = [pc EXCEPT ![c] = "idle"]
    /\ attempt' = [attempt EXCEPT ![c] = 0]
    /\ last_error' = [last_error EXCEPT ![c] = NoError]
    /\ response_model' = [response_model EXCEPT ![c] = "None"]
    /\ outcome' = [outcome EXCEPT ![c] = Pending]
    /\ last_reply' = [last_reply EXCEPT ![c] = NoReply]
    /\ log' = [log EXCEPT ![c] = <<>>]
    /\ UNCHANGED <<config, accessToken, tokenExpiresAt, now, delay>>

\* A second passes while some call is in progress.
Tick ==
    /\ InProgress # {}
    /\ now < MaxTime
    /\ now' = now + 1
    /\ UNCHANGED <<config, accessToken, tokenExpiresAt, pc, attempt, last_error,
                   response_model, delay, outcome, last_reply, log>>

\* ------------------------------------------------ pagination: the driver
\* ForLoop that goes on to the next page as soon as the last item of a page
\* is handed out.
ForLoopReadsAhead(r, i) ==
    IF i < Len(r.items)
    THEN /\ idx' = i + 1
         /\ yielded' = Append(yielded, Decode(r.items[i + 1]))
         /\ gen' = IF i + 1 = Len(r.items) /\ Truthy(GetToken(r)) THEN "running"
                   ELSE "suspended"
         /\ page_token' = IF i + 1 = Len(r.items) THEN GetToken(r) ELSE page_token
         /\ UNCHANGED gen_error
    ELSE /\ idx' = i
         /\ page_token' = GetToken(r)
         /\ gen' = IF Truthy(GetToken(r)) THEN "running" ELSE "finished"
         /\ UNCHANGED <<yielded, gen_error>>

\* ForLoop that ends the iteration when a page brings the cursor that was
\* just sent.
ForLoopStopsOnRepeat(r, i) ==
    IF i < Len(r.items)
    THEN /\ idx' = i + 1
         /\ yielded' = Append(yielded, Decode(r.items[i + 1]))
         /\ gen' = "suspended"
         /\ UNCHANGED <<page_token, gen_error>>
    ELSE /\ idx' = i
         /\ page_token' = GetToken(r)
         /\ gen' = IF Truthy(GetToken(r)) /\ GetToken(r) # page_token
                   THEN "running" ELSE "finished"
         /\ UNCHANGED <<yielded, gen_error>>

\* The for loop of _paginate with i items of r taken: the next item is
\* yielded, or the loop is over, the cursor is read and decides whether the
\* while loop goes on.
ForLoop(r, i) ==
    IF i < Len(r.items)
    THEN /\ idx' = i + 1
         /\ yielded' = Append(yielded, Decode(r.items[i + 1]))
         /\ gen' = "suspended"
         /\ UNCHANGED <<page_token, gen_error>>
    ELSE /\ idx' = i
         /\ page_token' = GetToken(r)
         /\ gen' = IF Truthy(GetToken(r)) THEN "running" ELSE "finished"
         /\ UNCHANGED <<yielded, gen_error>>

\* GenRaise that swallows the error: the iteration just ends.
GenRaiseSwallows(err) ==
    /\ gen' = "finished"
    /\ UNCHANGED <<page_token, idx, yielded, gen_error>>

\* The generator raises err.
GenRaise(err) ==
    /\ gen' = "failed"
    /\ gen_error' = err
    /\ UNCHANGED <<page_token, idx, yielded>>

\* Anext of a generator whose cursor is not set to None when it starts.
AnextKeepsCursor ==
    /\ gen \in {"created", "suspended"}
    /\ asks' = asks + 1
    /\ IF gen = "created"
       THEN /\ gen' = "running"
            /\ UNCHANGED <<page_token, idx, yielded, gen_error>>
       ELSE ForLoop(response, idx)
    /\ UNCHANGED <<req_body, response, sent, pages>>
    /\ UNCHANGED <<tvars, ovars>>

\* The consumer asks for an item: the generator starts, or resumes after
\* the yield where it is suspended.
Anext ==
    /\ gen \in {"created", "suspended"}
    /\ asks' = asks + 1
    /\ IF gen = "created"
       THEN /\ page_token' = PyNone
            /\ gen' = "running"
            /\ UNCHANGED <<idx, yielded, gen_error>>
       ELSE ForLoop(response, idx)
    /\ UNCHANGED <<req_body, response, sent, pages>>
    /\ UNCHANGED <<tvars, ovars>>

\* Top of the while loop: the payload is built and api_call is awaited.
Fetch ==
    /\ gen = "running"
    /\ Len(sent) < MaxPages
    /\ Start(DriverCall)
    /\ response_model'[DriverCall] = "None"
    /\ sent' = Append(sent, Payload(req_body, page_token))
    /\ gen' = "awaiting"
    /\ wire' = IF pc'[DriverCall] = "execute"
               THEN <<WireBody("POST", Payload(req_body, page_token))>>
               ELSE <<>>
    /\ UNCHANGED <<req_body, page_token, response, idx, gen_error, yielded, asks, pages>>
    /\ UNCHANGED <<traffic, fvars, ivars>>

\* api_call is over: its error leaves the generator, or its result, one of
\* the pages S, is checked and then iterated.
PageArrivesFrom(S) ==
    /\ gen = "awaiting"
    /\ Finish(DriverCall)
    /\ IF outcome[DriverCall].kind # "ok"
       THEN /\ GenRaise(outcome[DriverCall])
            /\ UNCHANGED <<response, pages>>
       ELSE \E r \in S :
              /\ r.type = outcome[DriverCall].body.shape
              /\ response' = r
              /\ pages' = Append(pages, r)
              /\ IF PageCheck(r) # "ok"
                 THEN GenRaise(Raise(PageCheck(r), NoStatus, NoBody, ""))
                 ELSE ForLoop(r, 0)
    /\ traffic' = SelectSeq(log[DriverCall], LAMBDA e : e.ev = "response")
    /\ UNCHANGED <<req_body, asks, sent, wire, fvars, ivars>>

\* The page that answers the request just made arrives.
PageArrives == PageArrivesFrom(ServerPages(Len(sent)))

\* The consumer abandons the iteration.
Aclose ==
    /\ gen \in {"created", "suspended"}
    /\ gen' = "closed"
    /\ UNCHANGED <<req_body, page_token, response, idx, gen_error, yielded, asks, sent, pages>>
    /\ UNCHANGED <<tvars, ovars>>

\* -------------------------------------------- pagination: two generators
\* The locals of the generator the driver variables stand for.
CurrentFrame ==
    [req_body |-> req_body, gen |-> gen, page_token |-> page_token,
     response |-> response, idx |-> idx, gen_error |-> gen_error,
     yielded |-> yielded, asks |-> asks, sent |-> sent, pages |-> pages]

\* The driver variables hold the locals f.
Holds(f) ==
    /\ req_body = f.req_body
    /\ gen = f.gen
    /\ page_token = f.page_token
    /\ response = f.response
    /\ idx = f.idx
    /\ gen_error = f.gen_error
    /\ yielded = f.yielded
    /\ asks = f.asks
    /\ sent = f.sent
    /\ pages = f.pages

\* The driver variables stand for the generator whose locals are f.
Load(f) ==
    /\ req_body' = f.req_body
    /\ gen' = f.gen
    /\ page_token' = f.page_token
    /\ response' = f.response
    /\ idx' = f.idx
    /\ gen_error' = f.gen_error
    /\ yielded' = f.yielded
    /\ asks' = f.asks
    /\ sent' = f.sent
    /\ pages' = f.pages

Other(t) == IF t = "A" THEN "B" ELSE "A"

\* The template each of the two invocations was given.
TemplateOf(t) ==
    IF t = "A" THEN [query |-> "q"]
    ELSE [query |-> "q", page_token |-> CursorStr(MaxPages + 1)]

\* The consumer turns to its other generator: a generator that is not being
\* asked keeps its locals, page_token included, until it is asked again.
Switch ==
    /\ gen \in {"created", "suspended", "finished", "closed", "failed"}
    /\ parked.gen # "absent"
    /\ parked' = CurrentFrame
    /\ Load(parked)
    /\ turn' = Other(turn)
    /\ UNCHANGED <<tvars, wvars, fvars, runs>>

\* The consumer invokes _paginate again with the same arguments after an
\* iteration that was completed, abandoned or failed: a new generator, none
\* of whose locals exists before its first step (page_token is assigned by
\* the first statement of the body).
NewIteration ==
    /\ gen \in {"finished", "closed", "failed"}
    /\ runs < MaxRuns
    /\ runs' = runs + 1
    /\ gen' = "created"
    /\ response' = NoResponse
    /\ idx' = 0
    /\ gen_error' = NoError
    /\ yielded' = <<>>
    /\ asks' = 0
    /\ sent' = <<>>
    /\ pages' = <<>>
    /\ UNCHANGED <<req_body, page_token>>
    /\ UNCHANGED <<tvars, wvars, fvars, parked, turn>>

\* ------------------------------------------------------------ the facade
inputs  == <<arg_id, arg_secret, env_id, env_secret>>
creds   == <<client_id, client_secret>>
handle  == <<has_transport, transport_made, http, http_made, released>>
block   == <<scope, exit_path>>
pagevar == <<page_response, paged>>

\* FlanksClient.__init__: the credentials are resolved; without them the
\* constructor raises FlanksConfigError.
Construct ==
    /\ client = "none"
    /\ LET id == Resolve(arg_id, env_id)
           secret == Resolve(arg_secret, env_secret)
       IN IF MissingCredentials(id, secret)
          THEN /\ client' = "config_error"
               /\ UNCHANGED creds
          ELSE /\ client' = "ready"
               /\ client_id' = id
               /\ client_secret' = secret
    /\ UNCHANGED <<inputs, handle, block, accesses, closes, pagevar>>
    /\ UNCHANGED <<tvars, pvars, wvars, ivars>>

\* self.transport is read: the cached_property builds the FlanksConnection
\* the first time.
TransportGet ==
    /\ transport_made' = CachedCreate(has_transport, transport_made)
    /\ has_transport' = TRUE

\* self._http is read: the cached_property builds the httpx.AsyncClient the
\* first time.
HttpGet ==
    /\ http_made' = CachedCreate(http # "absent", http_made)

\* The user reads client.transport.
AccessTransport ==
    /\ client = "ready"
    /\ accesses < MaxAccess
    /\ accesses' = accesses + 1
    /\ TransportGet
    /\ UNCHANGED <<inputs, client, creds, http, http_made, released, block, closes, pagevar>>
    /\ UNCHANGED <<tvars, pvars, wvars, ivars>>

\* The user calls list_sessions_page through client.connect: api_call of the
\* transport is entered and reads self._http for its first send.  A closed
\* handle refuses to send: RuntimeError leaves api_call.
CallThroughFacade ==
    /\ client = "ready"
    /\ pc[FacadeCall] = "idle"
    /\ TransportGet
    /\ HttpGet
    /\ IF http = "closed"
       THEN /\ pc' = [pc EXCEPT ![FacadeCall] = "done"]
            /\ outcome' = [outcome EXCEPT ![FacadeCall] =
                               Raise("RuntimeError", NoStatus, NoBody, "")]
            /\ log' = [log EXCEPT ![FacadeCall] = <<>>]
            /\ UNCHANGED <<config, accessToken, tokenExpiresAt, now, attempt, last_error,
                           response_model, delay, last_reply>>
            /\ UNCHANGED http
       ELSE /\ Start(FacadeCall)
            /\ response_model'[FacadeCall] = "None"
            /\ http' = "open"
    /\ UNCHANGED <<inputs, client, creds, released, block, accesses, closes, pagevar>>
    /\ UNCHANGED <<pvars, wvars, ivars>>

\* api_call has returned or raised: list_sessions_page builds the
\* PagedResponse from a JSON object that has the items field, and raises
\* otherwise.  page_response and paged are the response and the result of
\* the last call.
PageResult ==
    /\ Finish(FacadeCall)
    /\ IF outcome[FacadeCall].kind = "ok" /\ outcome[FacadeCall].body.shape = "dict"
       THEN \E r \in ServerPages(1) :
              /\ IsDict(r)
              /\ page_response' = r
              /\ paged' = IF PageCheck(r) = "ok" THEN PagedFrom(r) ELSE NoPaged
       ELSE /\ page_response' = NoResponse
            /\ paged' = NoPaged
    /\ UNCHANGED <<inputs, client, creds, handle, block, accesses, closes>>
    /\ UNCHANGED <<pvars, wvars, ivars>>

\* FlanksClient.close: the transport, if one was built, closes its handle
\* (FlanksConnection.close reads self._http and awaits aclose()).
CloseClient ==
    /\ closes' = closes + 1
    /\ IF has_transport
       THEN /\ HttpGet
            /\ http' = "closed"
            /\ released' = HttpAclose(http, released)
       ELSE UNCHANGED <<http, http_made, released>>
    /\ UNCHANGED <<has_transport, transport_made>>

\* The user calls client.close() between calls.
Close ==
    /\ client = "ready"
    /\ closes < MaxCloses
    /\ pc[FacadeCall] \in {"idle", "done"}
    /\ CloseClient
    /\ UNCHANGED <<inputs, client, creds, block, accesses, pagevar>>
    /\ UNCHANGED <<tvars, pvars, wvars, ivars>>

\* async with client: __aenter__ returns the client.
Enter ==
    /\ client = "ready"
    /\ scope = "outside"
    /\ scope' = "inside"
    /\ UNCHANGED <<inputs, client, creds, handle, exit_path, accesses, closes, pagevar>>
    /\ UNCHANGED <<tvars, pvars, wvars, ivars>>

\* Exit that closes the client only when the block ends normally.
ExitOnNormalOnly(path) ==
    /\ scope = "inside"
    /\ path = "cancelled" \/ pc[FacadeCall] \in {"idle", "done"}
    /\ scope' = "left"
    /\ exit_path' = path
    /\ IF path = "normal" THEN CloseClient
       ELSE UNCHANGED <<handle, closes>>
    /\ IF pc[FacadeCall] \in {"idle", "done"}
       THEN UNCHANGED <<pc, outcome>>
       ELSE /\ pc' = [pc EXCEPT ![FacadeCall] = "done"]
            /\ outcome' = [outcome EXCEPT ![FacadeCall] =
                               Raise("CancelledError", NoStatus, NoBody, "")]
    /\ UNCHANGED <<inputs, client, creds, accesses, pagevar>>
    /\ UNCHANGED <<config, accessToken, tokenExpiresAt, now, attempt, last_error,
                   response_model, delay, last_reply, log>>
    /\ UNCHANGED <<pvars, wvars, ivars>>

\* The block is left, by its end, by an exception or by cancellation (which
\* interrupts a call in progress): __aexit__ awaits close().
Exit(path) ==
    /\ scope = "inside"
    /\ path = "cancelled" \/ pc[FacadeCall] \in {"idle", "done"}
    /\ scope' = "left"
    /\ exit_path' = path
    /\ CloseClient
    /\ IF pc[FacadeCall] \in {"idle", "done"}
       THEN UNCHANGED <<pc, outcome>>
       ELSE /\ pc' = [pc EXCEPT ![FacadeCall] = "done"]
            /\ outcome' = [outcome EXCEPT ![FacadeCall] =
                               Raise("CancelledError", NoStatus, NoBody, "")]
    /\ UNCHANGED <<inputs, client, creds, accesses, pagevar>>
    /\ UNCHANGED <<config, accessToken, tokenExpiresAt, now, attempt, last_error,
                   response_model, delay, last_reply, log>>
    /\ UNCHANGED <<pvars, wvars, ivars>>

\* ------------------------------------------------------ the specifications
Next ==
    \/ (\E c \in Calls : Start(c)) /\ UNCHANGED <<pvars, ovars>>
    \/ (\E c \in Calls : EnsureResponse(c)) /\ UNCHANGED <<pvars, ovars>>
    \/ (\E c \in Calls : ExecuteResponse(c)) /\ UNCHANGED <<pvars, ovars>>
    \/ (\E c \in Calls : Wake(c)) /\ UNCHANGED <<pvars, ovars>>
    \/ (\E c \in Calls : RefreshResponse(c)) /\ UNCHANGED <<pvars, ovars>>
    \/ (\E c \in Calls : RetryResponse(c)) /\ UNCHANGED <<pvars, ovars>>
    \/ (\E c \in Calls : Finish(c)) /\ UNCHANGED <<pvars, ovars>>
    \/ Tick /\ UNCHANGED <<pvars, ovars>>

Spec == Init /\ [][Next]_vars

\* One caller on a fresh transport with any retry budget and the default
\* backoff, no response model.  The server of this specification answers
\* the token exchange with one token or with a failure, and a request with
\* any status and a JSON object, or not at all.
InitLive ==
    /\ InitTransport
    /\ retry_backoff = DefaultBackoff
    /\ callers = {"c1"}
    /\ NoDriver
    /\ NoFacade

LiveServer(c) ==
    /\ response_model'[c] = "None"
    /\ accessToken' \in {accessToken, "tokA"}
    /\ tokenExpiresAt' \in {tokenExpiresAt, now + TokenMargin + 60}
    /\ last_reply'[c].body.shape # "list"
    /\ last_reply'[c].cause # "ReadTimeout"
    /\ outcome'[c].cause # "ReadTimeout"
    /\ outcome'[c].body.shape # "list"

LiveStart    == \E c \in Calls : Start(c) /\ LiveServer(c) /\ UNCHANGED <<pvars, ovars>>
LiveEnsure   == \E c \in Calls : EnsureResponse(c) /\ LiveServer(c) /\ UNCHANGED <<pvars, ovars>>
LiveExecute  == \E c \in Calls : ExecuteResponse(c) /\ LiveServer(c) /\ UNCHANGED <<pvars, ovars>>
LiveWake     == \E c \in Calls : Wake(c) /\ UNCHANGED <<pvars, ovars>>
LiveRefresh  == \E c \in Calls : RefreshResponse(c) /\ LiveServer(c) /\ UNCHANGED <<pvars, ovars>>
LiveRetry    == \E c \in Calls : RetryResponse(c) /\ LiveServer(c) /\ UNCHANGED <<pvars, ovars>>
LiveFinish   == \E c \in Calls : Finish(c) /\ UNCHANGED <<pvars, ovars>>

NextLive ==
    \/ LiveStart
    \/ LiveEnsure
    \/ LiveExecute
    \/ LiveWake
    \/ LiveRefresh
    \/ LiveRetry
    \/ LiveFinish

\* Every HTTP round trip completes and every sleep returns: an awaited
\* exchange, request or delay of a call is eventually over.
RoundTrips ==
    /\ WF_vars(LiveEnsure)
    /\ WF_vars(LiveExecute)
    /\ WF_vars(LiveWake)
    /\ WF_vars(LiveRefresh)
    /\ WF_vars(LiveRetry)

SpecLive == InitLive /\ [][NextLive]_vars /\ RoundTrips

\* One pagination over a fresh transport with the default retry settings.
\* The server of this specification answers the token exchange with a
\* token or with 403, and a page request with 200, 401 or 500.
InitPaginate ==
    /\ InitTransport
    /\ retries = DefaultRetries
    /\ retry_backoff = DefaultBackoff
    /\ callers = {DriverCall}
    /\ req_body \in Templates
    /\ gen = "created"
    /\ page_token = PyNone
    /\ response = NoResponse
    /\ idx = 0
    /\ gen_error = NoError
    /\ yielded = <<>>
    /\ asks = 0
    /\ sent = <<>>
    /\ pages = <<>>
    /\ wire = <<>>
    /\ traffic = <<>>
    /\ NoSecond
    /\ NoFacade

\* api_call hands its body argument to every _execute of the call: a step of
\* the transport that sends a request puts the payload of the page request
\* on the wire.
OnWire ==
    /\ wire' = IF /\ Len(log'[DriverCall]) > Len(log[DriverCall])
                  /\ log'[DriverCall][Len(log'[DriverCall])].ev = "request"
               THEN Append(wire, WireBody("POST", sent[Len(sent)]))
               ELSE wire
    /\ UNCHANGED <<traffic, pvars, fvars, ivars>>

PageServer ==
    /\ accessToken' \in {accessToken, "tokA"}
    /\ tokenExpiresAt' \in {tokenExpiresAt, now + TokenMargin + 60}
    /\ last_reply'[DriverCall].status \in {NetFail, 200, 401, 500}
    /\ last_reply'[DriverCall].cause = ""
    /\ outcome'[DriverCall].cls \notin {"httpx.TransportError", "httpx.HTTPStatusError"}
    /\ outcome'[DriverCall].kind = "error" => outcome'[DriverCall].body.shape = "dict"

NextPaginate ==
    \/ Anext
    \/ Fetch
    \/ PageArrives
    \/ Aclose
    \/ EnsureResponse(DriverCall) /\ PageServer /\ OnWire
    \/ ExecuteResponse(DriverCall) /\ PageServer /\ OnWire
    \/ Wake(DriverCall) /\ OnWire
    \/ RefreshResponse(DriverCall) /\ PageServer /\ OnWire
    \/ RetryResponse(DriverCall) /\ PageServer /\ OnWire

SpecPaginate == InitPaginate /\ [][NextPaginate]_vars

\* One pagination consumed to the end against a server that answers every
\* request with 200 and a well-formed page, and that is free to close the
\* iteration (no cursor, null, "") or to hand out the same cursor again.
LoopPages(k) ==
    {[type |-> "dict", keys |-> ks,
      items |-> PageItems(k, n),
      next |-> IF TokenKey \in ks THEN v ELSE PyNone] :
        ks \in {{ItemKey}, {ItemKey, TokenKey}}, n \in 0 .. MaxItems,
        v \in {PyNone, EmptyStr, CursorStr(1)}}

LoopServer ==
    /\ accessToken' \in {accessToken, "tokA"}
    /\ tokenExpiresAt' \in {tokenExpiresAt, now + TokenMargin + 60}
    /\ last_reply'[DriverCall] = NoReply \/ last_reply'[DriverCall].status = 200
    /\ last_reply'[DriverCall].body.shape # "list"
    /\ outcome'[DriverCall].kind # "error"

LoopAnext   == Anext
LoopFetch   == Fetch
LoopPage    == PageArrivesFrom(LoopPages(Len(sent)))
LoopEnsure  == EnsureResponse(DriverCall) /\ LoopServer /\ OnWire
LoopExecute == ExecuteResponse(DriverCall) /\ LoopServer /\ OnWire

NextLoop ==
    \/ LoopAnext
    \/ LoopFetch
    \/ LoopPage
    \/ LoopEnsure
    \/ LoopExecute

\* The consumer asks until the iteration is over, the generator runs when
\* it can, and every round trip completes.
FullConsumption ==
    /\ WF_vars(LoopAnext)
    /\ WF_vars(LoopFetch)
    /\ WF_vars(LoopPage)
    /\ WF_vars(LoopEnsure)
    /\ WF_vars(LoopExecute)

SpecLoop == InitPaginate /\ [][NextLoop]_vars /\ FullConsumption

\* Two invocations of _paginate on one client, asked in turn, and new
\* invocations after an iteration is over.  The server of this
\* specification answers a page request with 200 and a well-formed page of
\* no item or one item, or with 404.
InitInterleave ==
    /\ InitTransport
    /\ retries = DefaultRetries
    /\ retry_backoff = DefaultBackoff
    /\ callers = {DriverCall}
    /\ Holds(FreshFrame(TemplateOf("A"), "created"))
    /\ parked = FreshFrame(TemplateOf("B"), "created")
    /\ turn = "A"
    /\ runs = 2
    /\ wire = <<>>
    /\ traffic = <<>>
    /\ NoFacade

TurnPages(k) ==
    {[type |-> "dict", keys |-> {ItemKey, TokenKey},
      items |-> PageItems(k, n), next |-> v] :
        n \in 0 .. 1, v \in {PyNone, CursorStr(k)}}

TurnServer ==
    /\ accessToken' \in {accessToken, "tokA"}
    /\ tokenExpiresAt' \in {tokenExpiresAt, now + TokenMargin + 60}
    /\ last_reply'[DriverCall] = NoReply \/ last_reply'[DriverCall].status \in {200, 404}
    /\ last_reply'[DriverCall].body.shape # "list"
    /\ pc'[DriverCall] \in {"execute", "done"}
    /\ outcome'[DriverCall].kind = "error" => outcome'[DriverCall].cls = "FlanksNotFoundError"

NextInterleave ==
    \/ Anext
    \/ Fetch
    \/ PageArrivesFrom(TurnPages(Len(sent)))
    \/ Aclose
    \/ EnsureResponse(DriverCall) /\ TurnServer /\ OnWire
    \/ ExecuteResponse(DriverCall) /\ TurnServer /\ OnWire
    \/ Switch
    \/ NewIteration

SpecInterleave == InitInterleave /\ [][NextInterleave]_vars

\* The construction of a facade with any arguments and any environment, and
\* the first things done with the object when there is one.
InitConstruct ==
    /\ InitTransport
    /\ retries = DefaultRetries
    /\ retry_backoff = DefaultBackoff
    /\ callers = {FacadeCall}
    /\ NoDriver
    /\ arg_id \in ArgValues
    /\ arg_secret \in ArgValues
    /\ env_id \in EnvValues
    /\ env_secret \in EnvValues
    /\ FacadeUnbuilt

NextConstruct ==
    \/ Construct
    \/ AccessTransport
    \/ Enter
    \/ Close

SpecConstruct == InitConstruct /\ [][NextConstruct]_vars

\* One facade built from explicit credentials and the code that uses it.
\* The server of this specification answers the token exchange with a token
\* or with 403, and a request with 200 or 404 or not at all.
InitFacade ==
    /\ InitTransport
    /\ retries = DefaultRetries
    /\ retry_backoff = DefaultBackoff
    /\ callers = {FacadeCall}
    /\ NoDriver
    /\ arg_id = PyStr(1)
    /\ arg_secret = PyStr(1)
    /\ env_id = PyNone
    /\ env_secret = PyNone
    /\ FacadeUnbuilt

FacadeServer ==
    /\ accessToken' \in {accessToken, "tokA"}
    /\ tokenExpiresAt' \in {tokenExpiresAt, now + TokenMargin + 60}
    /\ last_reply'[FacadeCall].status \in {NetFail, 200, 404}
    /\ last_reply'[FacadeCall].cause = ""
    /\ outcome'[FacadeCall].cls \notin {"httpx.TransportError", "httpx.HTTPStatusError"}
    /\ outcome'[FacadeCall].kind = "error" => outcome'[FacadeCall].body.shape = "dict"

NextFacade ==
    \/ Construct
    \/ AccessTransport
    \/ CallThroughFacade
    \/ EnsureResponse(FacadeCall) /\ FacadeServer /\ UNCHANGED <<pvars, ovars>>
    \/ ExecuteResponse(FacadeCall) /\ FacadeServer /\ UNCHANGED <<pvars, ovars>>
    \/ PageResult
    \/ Close
    \/ Enter
    \/ \E path \in ExitPaths : Exit(path)

SpecFacade == InitFacade /\ [][NextFacade]_vars

\* Two api_call invocations share a fresh transport with the default retry
\* settings, one call per slot, no response model.  The server of this
\* specification answers the token exchange with a token, 403 or 500, and a
\* request with 200, 401 or 500 and a JSON object.
InitConcurrent ==
    /\ InitTransport
    /\ retries = DefaultRetries
    /\ retry_backoff = DefaultBackoff
    /\ callers = {"c1", "c2"}
    /\ NoDriver
    /\ NoFacade

SharedServer(c) ==
    /\ response_model'[c] = "None"
    /\ tokenExpiresAt' \in {tokenExpiresAt, now + TokenMargin + 60}
    /\ last_reply'[c].status \in {NetFail, 200, 401, 500}
    /\ last_reply'[c].cause = ""
    /\ last_reply'[c].body.shape # "list"
    /\ outcome'[c].cls # "httpx.TransportError"
    /\ outcome'[c].body.shape # "list"

NextConcurrent ==
    \/ \E c \in Calls : Start(c) /\ SharedServer(c) /\ UNCHANGED <<pvars, ovars>>
    \/ \E c \in Calls : EnsureResponse(c) /\ SharedServer(c) /\ UNCHANGED <<pvars, ovars>>
    \/ \E c \in Calls : ExecuteResponse(c) /\ SharedServer(c) /\ UNCHANGED <<pvars, ovars>>
    \/ \E c \in Calls : Wake(c) /\ UNCHANGED <<pvars, ovars>>
    \/ \E c \in Calls : RefreshResponse(c) /\ SharedServer(c) /\ UNCHANGED <<pvars, ovars>>
    \/ \E c \in Calls : RetryResponse(c) /\ SharedServer(c) /\ UNCHANGED <<pvars, ovars>>

SpecConcurrent == InitConcurrent /\ [][NextConcurrent]_vars

\* A batch: every slot calls api_call on a fresh transport.  The server of
\* this specification answers the token exchange with a token or 403 and a
\* request with 200.
InitBatch ==
    /\ InitTransport
    /\ retries = DefaultRetries
    /\ retry_backoff = DefaultBackoff
    /\ callers = Calls
    /\ NoDriver
    /\ NoFacade

BatchServer(c) ==
    /\ SharedServer(c)
    /\ last_reply'[c].status \in {NetFail, 200}
    /\ outcome'[c].cls # "httpx.HTTPStatusError"

NextBatch ==
    \/ \E c \in Calls : Start(c) /\ BatchServer(c) /\ UNCHANGED <<pvars, ovars>>
    \/ \E c \in Calls : EnsureResponse(c) /\ BatchServer(c) /\ UNCHANGED <<pvars, ovars>>
    \/ \E c \in Calls : ExecuteResponse(c) /\ BatchServer(c) /\ UNCHANGED <<pvars, ovars>>

SpecBatch == InitBatch /\ [][NextBatch]_vars

TypeOK ==
    /\ retries \in 0 .. MaxRetries
    /\ accessToken \in Tokens \cup {NoToken}
    /\ \A c \in Calls : pc[c] \in {"idle", "ensure_token", "execute", "sleep",
                                    "refresh_token", "retry", "done"}


\* ----------------------------------------------------- reading the history
Done(c) == pc[c] = "done"

\* The events of one kind in the history of call c, in order.
Evs(c, kind) == SelectSeq(log[c], LAMBDA e : e.ev = kind)

\* The statuses of the replies to the resource requests of call c, in order.
RespStatuses(c) == [i \in 1 .. Len(Evs(c, "response")) |-> Evs(c, "response")[i].st]

\* The delays of call c, in order.
Delays(c) == [i \in 1 .. Len(Evs(c, "sleep")) |-> Evs(c, "sleep")[i].wait]

\* How many events of one kind the history of c holds before / after position i.
CountBefore(c, i, kind) == Cardinality({j \in 1 .. i - 1 : log[c][j].ev = kind})
CountAfter(c, i, kind) == Cardinality({j \in i + 1 .. Len(log[c]) : log[c][j].ev = kind})

IsServerStatus(st) == st # NetFail /\ st >= 500
IsSuccessStatus(st) == st >= 200 /\ st < 300
AllServer(st) == \A i \in 1 .. Len(st) : IsServerStatus(st[i])

\* Position in the history of the first reply with status 401, 0 if none.
FirstAuth(c) ==
    LET S == {i \in 1 .. Len(log[c]) : log[c][i].ev = "response" /\ log[c][i].st = 401}
    IN IF S = {} THEN 0 ELSE CHOOSE i \in S : \A j \in S : i <= j

\* The last event of the history of c is the reply to a resource request.
EndsWithResponse(c) == log[c] # <<>> /\ log[c][Len(log[c])].ev = "response"

\* ------------------------------------------------------------------ claims

\* C1: every resource request of api_call (first attempt, retry after a
\* backoff delay, retry after a 401) is sent with a token that exists and
\* expires more than 300 seconds later, or right after a token refresh.
C1_RequestTokenUsable ==
    \A c \in Calls : \A i \in 1 .. Len(log[c]) :
        log[c][i].ev = "request" =>
            \/ log[c][i].usable
            \/ /\ i > 1
               /\ log[c][i - 1].ev = "exchange_response"
               /\ IsSuccessStatus(log[c][i - 1].st)

\* C2 as stated: after a 401 the call makes exactly one token refresh and
\* exactly one more attempt; a second 401 is raised as Auth error 401.
C2_Original ==
    \A c \in Calls :
        (Done(c) /\ FirstAuth(c) # 0) =>
            /\ CountAfter(c, FirstAuth(c), "exchange") = 1
            /\ CountAfter(c, FirstAuth(c), "request") = 1
            /\ (CountAfter(c, FirstAuth(c), "response") = 1 /\ last_reply[c].status = 401)
                  => outcome[c] = Raise("FlanksAuthError", 401, last_reply[c].body, "")

\* C2 amended: after a 401 the call makes exactly one token refresh,
\* whatever the retry budget, and exactly one more attempt if that refresh
\* succeeds (none if it fails); a second 401 is raised as Auth error 401 and
\* nothing is sent after it.
C2_AuthRecovery ==
    \A c \in Calls :
        FirstAuth(c) # 0 =>
            LET a == FirstAuth(c)
                refreshed == \E j \in a + 1 .. Len(log[c]) :
                                /\ log[c][j].ev = "exchange_response"
                                /\ IsSuccessStatus(log[c][j].st)
            IN /\ CountAfter(c, a, "exchange") = 1
               /\ CountAfter(c, a, "request") <= 1
               /\ CountAfter(c, a, "sleep") = 0
               /\ Done(c) => (CountAfter(c, a, "request") = 1 <=> refreshed)
               /\ (CountAfter(c, a, "response") = 1 /\ last_reply[c].status = 401) =>
                     /\ Done(c)
                     /\ EndsWithResponse(c)
                     /\ outcome[c] = Raise("FlanksAuthError", 401, last_reply[c].body, "")

C2_Witness ==
    \E c \in Calls :
        /\ Done(c)
        /\ retries = 0
        /\ RespStatuses(c) = <<401, 401>>
        /\ Len(Evs(c, "request")) = 2
        /\ outcome[c].cls = "FlanksAuthError"

\* C3: when every attempt is answered with a status >= 500 the call makes
\* exactly retries + 1 attempts and raises the Server error of the last one.
C3_RetryExhaustion ==
    \A c \in Calls :
        LET st == RespStatuses(c) IN
        (Len(st) >= 1 /\ AllServer(st)) =>
            /\ Len(st) <= retries + 1
            /\ Done(c) <=> Len(st) = retries + 1
            /\ Done(c) =>
                  /\ Len(Evs(c, "request")) = retries + 1
                  /\ last_reply[c].status = st[Len(st)]
                  /\ outcome[c] = Raise("FlanksServerError", st[Len(st)],
                                        last_reply[c].body, "")

C3_Witness ==
    \E c \in Calls :
        /\ Done(c)
        /\ retries = 2
        /\ RespStatuses(c) = <<500, 500, 503>>
        /\ outcome[c].cls = "FlanksServerError"
        /\ outcome[c].status = 503

\* C4 as stated: with retries = 2, three 500 answers followed by a 200 give
\* a successful result after exactly 3 attempts.
C4_Original ==
    \A c \in Calls :
        LET st == RespStatuses(c) IN
        (Done(c) /\ retries = 2 /\ Len(st) >= 3
           /\ st[1] = 500 /\ st[2] = 500 /\ st[3] = 500) =>
            /\ outcome[c].kind = "ok"
            /\ Len(Evs(c, "request")) = 3

\* C4 amended: with retries = 2, two 500 answers followed by a 200 give a
\* successful result after exactly 3 attempts, with delays of backoff x 1
\* and backoff x 2 between the attempts.
C4_ServerRetry ==
    \A c \in Calls :
        LET st == RespStatuses(c) IN
        /\ (retries = 2 /\ st = <<500, 500>>) => ~Done(c)
        /\ (retries = 2 /\ st = <<500, 500, 200>>) =>
              /\ Done(c)
              /\ Len(Evs(c, "request")) = 3
              /\ Delays(c) = <<retry_backoff * 1, retry_backoff * 2>>
              /\ outcome[c] = ValidateResponse(last_reply[c].body, response_model[c])
              /\ response_model[c] = "None" => outcome[c] = Return("json", last_reply[c].body)

C4_Witness ==
    \E c \in Calls :
        /\ Done(c)
        /\ retries = 2
        /\ RespStatuses(c) = <<500, 500, 200>>
        /\ Delays(c) = <<2, 4>>
        /\ outcome[c].kind = "ok"

\* C5: k <= retries answers >= 500 followed by a 2xx: the call goes on to
\* attempt k + 1 and returns the body of the 2xx after exactly k + 1 attempts.
C5_SuccessAfterServerErrors ==
    \A c \in Calls :
        LET st == RespStatuses(c)
            n  == Len(st)
        IN /\ (Len(Evs(c, "request")) >= 1 /\ AllServer(st) /\ n <= retries) => ~Done(c)
           /\ (n >= 1 /\ AllServer(SubSeq(st, 1, n - 1)) /\ IsSuccessStatus(st[n])) =>
                 /\ n - 1 <= retries
                 /\ Done(c)
                 /\ Len(Evs(c, "request")) = n
                 /\ last_reply[c].status = st[n]
                 /\ outcome[c] = ValidateResponse(last_reply[c].body, response_model[c])
                 /\ response_model[c] = "None" =>
                       outcome[c] = Return("json", last_reply[c].body)

C5_Witness ==
    \E c \in Calls :
        /\ Done(c)
        /\ retries = 1
        /\ RespStatuses(c) = <<503, 200>>
        /\ response_model[c] = "None"
        /\ outcome[c].kind = "ok"
        /\ outcome[c].body = last_reply[c].body
        /\ last_reply[c].body.shape = "list"

\* C6: the delay after failed attempt n (0-indexed) is retry_backoff * 2^n;
\* a delay follows only an attempt answered with a status >= 500, precedes
\* every further attempt of the loop, and never follows the final attempt.
C6_Backoff ==
    \A c \in Calls : \A i \in 1 .. Len(log[c]) :
        /\ log[c][i].ev = "sleep" =>
              LET n == CountBefore(c, i, "request") - 1 IN
              /\ i > 1
              /\ log[c][i - 1].ev = "response"
              /\ IsServerStatus(log[c][i - 1].st)
              /\ CountBefore(c, i, "sleep") = n
              /\ log[c][i].wait = retry_backoff * (2 ^ n)
              /\ n < retries
              /\ i < Len(log[c]) => log[c][i + 1].ev = "request"
              /\ i = Len(log[c]) => (pc[c] = "sleep" /\ delay[c] = log[c][i].wait)
        /\ (log[c][i].ev = "request" /\ i > 1 /\ log[c][i - 1].ev # "exchange_response")
              => log[c][i - 1].ev = "sleep"

C6_Witness ==
    \E c \in Calls :
        /\ Done(c)
        /\ retries = 2
        /\ retry_backoff = 2
        /\ RespStatuses(c) = <<503, 503, 503>>
        /\ Delays(c) = <<2, 4>>
        /\ log[c][Len(log[c])].ev = "response"

\* C7: a 400 (a 404) ends the call with a Validation (NotFound) error that
\* carries the status and the body; on the first attempt that is exactly one
\* request, no delay and no token refresh after it, whatever the budget.
C7_ClientErrorsNotRetried ==
    \A c \in Calls : \A i \in 1 .. Len(log[c]) :
        (log[c][i].ev = "response" /\ log[c][i].st \in {400, 404}) =>
            /\ i = Len(log[c])
            /\ Done(c)
            /\ last_reply[c].status = log[c][i].st
            /\ outcome[c] = Raise(IF log[c][i].st = 400 THEN "FlanksValidationError"
                                  ELSE "FlanksNotFoundError",
                                  log[c][i].st, last_reply[c].body, "")
            /\ CountBefore(c, i, "response") = 0 =>
                  /\ Len(Evs(c, "request")) = 1
                  /\ Len(Evs(c, "sleep")) = 0
                  /\ log[c][i - 1].ev = "request"

C7_Witness ==
    \E c \in Calls :
        /\ Done(c)
        /\ retries = 2
        /\ log[c] = <<ReqEv(accessToken, tokenExpiresAt, now), RespEv(404)>>
        /\ outcome[c].cls = "FlanksNotFoundError"
        /\ outcome[c].status = 404
        /\ outcome[c].body \in Bodies

\* C8: a transport failure on any attempt ends the call at once with a
\* Network error wrapping the cause, even with retry budget left, and in
\* place of any Server error remembered from earlier attempts.
C8_NetworkNotRetried ==
    \A c \in Calls : \A i \in 1 .. Len(log[c]) :
        (log[c][i].ev = "response" /\ log[c][i].st = NetFail) =>
            /\ i = Len(log[c])
            /\ Done(c)
            /\ last_reply[c].cause \in Causes
            /\ outcome[c] = Raise("FlanksNetworkError", NoStatus, NoBody, last_reply[c].cause)

C8_Witness ==
    \E c \in Calls :
        /\ Done(c)
        /\ retries = 2
        /\ attempt[c] = 1
        /\ RespStatuses(c) = <<500, NetFail>>
        /\ last_error[c].cls = "FlanksServerError"
        /\ outcome[c].cls = "FlanksNetworkError"
        /\ outcome[c].cause = "ReadTimeout"

\* C9: every api_call ends with a successful result or with one classified
\* error of the taxonomy; no raw transport or HTTP-library exception reaches
\* the caller, also when the token exchange fails.
C9_OnlyClassifiedErrors ==
    \A c \in Calls :
        Done(c) =>
            \/ outcome[c].kind = "ok"
            \/ outcome[c].kind = "error" /\ outcome[c].cls \in Taxonomy

\* C10: a completed response with a non-2xx status other than 400, 401, 404
\* or >= 500 is never returned as a result; it is raised as an unclassified
\* API error with the status and the body.
C10_OtherStatusIsError ==
    \A c \in Calls :
        (Done(c) /\ EndsWithResponse(c)
           /\ last_reply[c].status \notin {NetFail, 400, 401, 404}
           /\ last_reply[c].status < 500
           /\ ~IsSuccessStatus(last_reply[c].status)) =>
            /\ outcome[c].kind # "ok"
            /\ outcome[c] = Raise("FlanksAPIError", last_reply[c].status,
                                  last_reply[c].body, "")


\* The last event of the history h.
LastEv(h) == h[Len(h)]

\* C11: _ensure_token with a token that expires more than 300 seconds ahead
\* sends nothing to the token endpoint and leaves accessToken and
\* tokenExpiresAt as they are, every time it is called in that state.
C11_EnsureTokenNoop ==
    [][\A c \in Calls :
         (pc[c] = "idle" /\ pc'[c] # "idle" /\ tokenExpiresAt - now > TokenMargin) =>
            /\ pc'[c] = "execute"
            /\ Len(log'[c]) = 1
            /\ log'[c][1].ev = "request"
            /\ log'[c][1].tok = accessToken
            /\ accessToken' = accessToken
            /\ tokenExpiresAt' = tokenExpiresAt]_vars

C11_Witness ==
    \E c \in Calls :
        /\ pc[c] = "execute"
        /\ Len(log[c]) = 1
        /\ log[c][1].ev = "request"
        /\ log[c][1].usable
        /\ tokenExpiresAt - now > TokenMargin

\* C12: _ensure_token with no token, or with a token that expires within
\* 300 seconds (tokenExpiresAt - now <= 300, boundary included), performs
\* exactly one token exchange before the first request, and the request is
\* sent with the token that exchange returned.
C12_RefreshWithinMargin ==
    \A c \in Calls :
        log[c] # <<>> =>
            /\ log[c][1].ev = "request" => log[c][1].usable
            /\ (log[c][1].ev = "exchange" /\ Len(log[c]) >= 3) =>
                  /\ log[c][2].ev = "exchange_response"
                  /\ log[c][3].ev = "request"
                  /\ log[c][3].tok = log[c][2].tok

\* C13: a token exchange answered with 403 ends the operation with an Auth
\* error carrying status 403 and the body; the exchange is not repeated and
\* accessToken and tokenExpiresAt keep their values.
C13_ExchangeRejected ==
    /\ [](\A c \in Calls : \A i \in 1 .. Len(log[c]) :
            (log[c][i].ev = "exchange_response" /\ log[c][i].st = 403) =>
                /\ i = Len(log[c])
                /\ Done(c)
                /\ log[c][i - 1].ev = "exchange"
                /\ outcome[c].cls = "FlanksAuthError"
                /\ outcome[c].status = 403
                /\ outcome[c].body \in Bodies)
    /\ [][\A c \in Calls :
            (pc[c] \in {"ensure_token", "refresh_token"} /\ pc'[c] = "done"
               /\ LastEv(log'[c]).st = 403) =>
                /\ accessToken' = accessToken
                /\ tokenExpiresAt' = tokenExpiresAt
                /\ log'[c] = Append(log[c], ExchRespEv(403, NoToken))]_vars

C13_Witness ==
    \E c \in Calls :
        /\ Done(c)
        /\ LastEv(log[c]) = ExchRespEv(403, NoToken)
        /\ CountBefore(c, Len(log[c]), "response") = 1
        /\ accessToken # NoToken
        /\ outcome[c] = Raise("FlanksAuthError", 403, outcome[c].body, "")
        /\ outcome[c].body.shape = "dict"

\* C14 as stated: a call whose first attempt and whose retry after the
\* refresh are both answered with 401 makes exactly 2 requests and 2 token
\* refreshes.
C14_Original ==
    \A c \in Calls :
        (Done(c) /\ RespStatuses(c) = <<401, 401>>) =>
            /\ Len(Evs(c, "request")) = 2
            /\ Len(Evs(c, "exchange")) = 2

\* C14 amended: such a call makes exactly 2 requests and exactly 1 token
\* refresh, the one after the first 401 (one more only if _ensure_token
\* refreshed at the start of the call), and then raises the Auth error.
C14_AuthTwice ==
    \A c \in Calls :
        RespStatuses(c) = <<401, 401>> =>
            /\ Done(c)
            /\ Len(Evs(c, "request")) = 2
            /\ CountAfter(c, FirstAuth(c), "exchange") = 1
            /\ Len(Evs(c, "exchange")) = (IF log[c][1].ev = "exchange" THEN 2 ELSE 1)
            /\ outcome[c] = Raise("FlanksAuthError", 401, last_reply[c].body, "")

C14_Witness ==
    \E c \in Calls :
        /\ Done(c)
        /\ RespStatuses(c) = <<401, 401>>
        /\ log[c][1].ev = "request"
        /\ Len(Evs(c, "exchange")) = 1
        /\ Len(Evs(c, "request")) = 2
        /\ outcome[c].cls = "FlanksAuthError"


\* ------------------------------------------ reading the pagination history
\* The page p closes the iteration: its cursor is absent, null or "".
IsLastPage(p) == TokenKey \notin p.keys \/ p.next = PyNone \/ p.next = EmptyStr

\* The page p is not a mapping, or lacks the declared items field.
Malformed(p) == p.type # "dict" \/ ItemKey \notin p.keys

\* The decoded items of the pages ps, in server order.
RECURSIVE DecodedItems(_)
DecodedItems(ps) ==
    IF ps = <<>> THEN <<>>
    ELSE DecodedItems(SubSeq(ps, 1, Len(ps) - 1))
           \o [i \in 1 .. Len(ps[Len(ps)].items) |->
                 [model |-> "T", raw |-> ps[Len(ps)].items[i]]]

\* C15: when the pages P1..Pn are consumed to the end, only Pn having a
\* cursor that is absent, null or "", the consumer has received exactly the
\* decoded items of P1..Pn in server order, n page requests were made and
\* none follows Pn; an empty page with a non-empty cursor does not end it.
C15_FullConsumption ==
    /\ gen = "finished" =>
          /\ pages # <<>>
          /\ \A i \in 1 .. Len(pages) : IsLastPage(pages[i]) <=> i = Len(pages)
          /\ yielded = DecodedItems(pages)
          /\ Len(sent) = Len(pages)
          /\ pc[DriverCall] = "idle"
    /\ (pages # <<>> /\ ~Malformed(pages[Len(pages)]) /\ IsLastPage(pages[Len(pages)])) =>
          /\ gen \in {"suspended", "finished", "closed"}
          /\ Len(sent) = Len(pages)
    /\ (pages # <<>> /\ ~Malformed(pages[Len(pages)]) /\ ~IsLastPage(pages[Len(pages)])) =>
          gen # "finished"

C15_Witness ==
    /\ gen = "finished"
    /\ Len(pages) = 3
    /\ pages[2].items = <<>>
    /\ pages[3].next = EmptyStr
    /\ Len(yielded) = 3
    /\ yielded[3].raw = [page |-> 3, pos |-> 1]

\* C16: the first page request carries the template merged with
\* page_token = null; request i+1 carries the same template fields and, as
\* page_token, the next_page_token of response i unchanged.
C16_CursorEcho ==
    \A i \in 1 .. Len(sent) :
        /\ DOMAIN sent[i] = DOMAIN req_body \cup {"page_token"}
        /\ \A k \in DOMAIN req_body \ {"page_token"} : sent[i][k] = req_body[k]
        /\ i = 1 => sent[i]["page_token"] = PyNone
        /\ i > 1 =>
              /\ Len(pages) >= i - 1
              /\ TokenKey \in pages[i - 1].keys
              /\ sent[i]["page_token"] = pages[i - 1].next

C16_Witness ==
    /\ Len(sent) = 3
    /\ "page_token" \in DOMAIN req_body
    /\ sent[1]["page_token"] = PyNone
    /\ sent[3]["page_token"] = CursorStr(2)
    /\ sent[3]["query"] = "q"

\* C17: the driver never reads ahead: a request for page k+1 is in flight
\* or about to be sent only when every item of pages 1..k has been handed
\* out and the consumer has asked again; a consumer that stops after an item
\* of page k has caused exactly k page requests.
C17_NoReadAhead ==
    /\ Len(sent) \in {Len(pages), Len(pages) + 1}
    /\ gen \in {"running", "awaiting"} =>
          /\ asks = Len(yielded) + 1
          /\ yielded = DecodedItems(pages)
    /\ Len(sent) = Len(pages) + 1 => gen \in {"awaiting", "failed"}
    /\ (gen \in {"suspended", "closed"} /\ yielded # <<>>) =>
          /\ Len(sent) = yielded[Len(yielded)].raw.page
          /\ asks = Len(yielded)
          /\ pc[DriverCall] = "idle"

C17_Witness ==
    /\ gen = "closed"
    /\ yielded # <<>>
    /\ yielded[Len(yielded)].raw.page = 2
    /\ idx = Len(response.items)
    /\ response.next = CursorStr(2)
    /\ Len(sent) = 2

\* C18: a page that is not a mapping, or that lacks the items field, makes
\* the driver fail at that page: no item of it is handed out, the page is
\* not requested again and no further page is requested.
C18_MalformedPage ==
    \A i \in 1 .. Len(pages) :
        Malformed(pages[i]) =>
            /\ i = Len(pages)
            /\ gen = "failed"
            /\ gen_error.cls \in {"TypeError", "KeyError"}
            /\ Len(sent) = i
            /\ pc[DriverCall] = "idle"
            /\ \A j \in 1 .. Len(yielded) : yielded[j].raw.page # i

C18_Witness ==
    /\ gen = "failed"
    /\ Len(pages) = 2
    /\ pages[2].type = "list"
    /\ pages[2].items # <<>>
    /\ yielded # <<>>
    /\ gen_error.cls = "TypeError"


\* -------------------------------------------- reading concurrent histories
\* The calls that have started.
Started == {c \in Calls : log[c] # <<>>}

\* The tokens that completed token exchanges have returned.
IssuedTokens ==
    UNION {{log[c][i].tok : i \in {j \in 1 .. Len(log[c]) :
                                     /\ log[c][j].ev = "exchange_response"
                                     /\ IsSuccessStatus(log[c][j].st)}} : c \in Calls}

C20_ConcurrentCalls ==
    Cardinality(Started) >= 2 =>
        \A c \in Started :
            /\ \A i \in 1 .. Len(log[c]) :
                  log[c][i].ev = "request" =>
                      /\ log[c][i].tok # NoToken
                      /\ log[c][i].tok \in IssuedTokens
            /\ Done(c) =>
                  \/ /\ outcome[c].kind = "ok"
                     /\ outcome[c].body = last_reply[c].body
                  \/ /\ outcome[c].kind = "error"
                     /\ outcome[c].cls \in Taxonomy


\* What the caller gets when the token exchange answered with status st
\* fails: the Auth error for 403, otherwise the failure httpx raised.
ExchangeFailureClass(st) ==
    IF st = 403 THEN "FlanksAuthError"
    ELSE IF st = NetFail THEN "httpx.TransportError"
    ELSE "httpx.HTTPStatusError"

\* C21: the step that leaves the async with block, by its end, by an error
\* or by cancellation, leaves the connection handle of the transport closed
\* and released once; a facade that never built its transport has no handle
\* and builds none on the way out.
C21_ExitClosesHandle ==
    [][(scope = "inside" /\ scope' = "left") =>
          /\ exit_path' \in ExitPaths
          /\ has_transport' = has_transport
          /\ has_transport => (http' = "closed" /\ released' = 1)
          /\ ~has_transport => (http' = "absent" /\ released' = 0)]_vars

\* The block was cancelled while a request was awaiting its response: the
\* call ended with CancelledError and the handle it used is closed.
C21_Witness ==
    /\ scope = "left"
    /\ exit_path = "cancelled"
    /\ outcome[FacadeCall].kind = "error"
    /\ outcome[FacadeCall].cls = "CancelledError"
    /\ Len(log[FacadeCall]) > 0
    /\ LastEv(log[FacadeCall]).ev = "request"
    /\ http = "closed"
    /\ released = 1
    /\ closes = 1

NonEmpty(v) == v.kind = "str" /\ v.val > 0

\* C23: constructing the facade fails with a Config error exactly when the
\* client id or the client secret has neither a non-empty argument nor a
\* non-empty environment variable, and then no transport and no connection
\* handle was created and nothing was sent; when the construction succeeds,
\* a non-empty argument is the credential whatever the environment holds,
\* and the environment variable is the credential otherwise.
C23_ConfigErrorFailsFast ==
    /\ client # "none" =>
          (client = "config_error" <=>
              \/ ~(NonEmpty(arg_id) \/ NonEmpty(env_id))
              \/ ~(NonEmpty(arg_secret) \/ NonEmpty(env_secret)))
    /\ client = "config_error" =>
          /\ ~has_transport /\ transport_made = 0
          /\ http = "absent" /\ http_made = 0
          /\ pc[FacadeCall] = "idle" /\ log[FacadeCall] = <<>>
          /\ accessToken = NoToken
    /\ client = "ready" =>
          /\ client_id = (IF NonEmpty(arg_id) THEN arg_id ELSE env_id)
          /\ client_secret = (IF NonEmpty(arg_secret) THEN arg_secret ELSE env_secret)
          /\ NonEmpty(client_id) /\ NonEmpty(client_secret)

\* The secret is missing: the argument is "" and the variable is unset, while
\* the id is given both ways.
C23_Witness ==
    /\ client = "config_error"
    /\ arg_id = PyStr(1) /\ env_id = PyStr(2)
    /\ arg_secret = EmptyStr /\ env_secret = PyNone

\* C24: over any sequence of accesses, calls and closes on one facade, at
\* most one transport and at most one connection handle are created: the
\* transport exists from the first access on and the handle from the first
\* use on, and every later access or use finds the one that exists.
C24_OneTransportOneHandle ==
    /\ transport_made <= 1
    /\ http_made <= 1
    /\ transport_made = (IF has_transport THEN 1 ELSE 0)
    /\ http_made = (IF http = "absent" THEN 0 ELSE 1)
    /\ http # "absent" => has_transport
    /\ accesses > 0 => has_transport

\* The transport was read twice, and a second call is in progress on the
\* handle the first call created.
C24_Witness ==
    /\ accesses = 2
    /\ pc[FacadeCall] = "execute"
    /\ log[FacadeCall][1].ev = "request"
    /\ http = "open"
    /\ transport_made = 1
    /\ http_made = 1

C26_TokenBeforeRequest ==
    \A c \in Started :
        /\ pc[c] = "ensure_token" => log[c] = <<ExchEv>>
        /\ log[c][1].ev \in {"exchange", "request"}
        /\ (log[c][1].ev = "exchange" /\ Len(log[c]) >= 2) =>
              /\ log[c][2].ev = "exchange_response"
              /\ IF IsSuccessStatus(log[c][2].st)
                 THEN Len(log[c]) >= 3 /\ log[c][3].ev = "request"
                 ELSE /\ Len(log[c]) = 2
                      /\ Done(c)
                      /\ Evs(c, "request") = <<>>
                      /\ outcome[c].kind = "error"
                      /\ outcome[c].cls = ExchangeFailureClass(log[c][2].st)
                      /\ outcome[c].status = log[c][2].st

C26_Witness ==
    \E c \in Calls :
        /\ Done(c)
        /\ log[c] = <<ExchEv, ExchRespEv(500, NoToken)>>
        /\ outcome[c].cls = "httpx.HTTPStatusError"

\* C27: a Server error reaches the caller only after the retry budget is
\* used up, after retries + 1 attempts of the loop, also when the >= 500
\* response answers the request repeated after a 401-triggered refresh.
C27_ServerOnlyAfterBudget ==
    \A c \in Calls :
        (Done(c) /\ outcome[c].kind = "error" /\ outcome[c].cls = "FlanksServerError") =>
            /\ attempt[c] = retries
            /\ Len(SelectSeq(log[c], LAMBDA e : e.ev = "response" /\ IsServerStatus(e.st)))
                 = retries + 1

\* C28: when the refresh that follows a 401 fails, no further resource
\* request is sent, the failure of the refresh reaches the caller, and the
\* token fields keep the values of the rejected token.
C28_FailedRecovery ==
    /\ [](\A c \in Calls : \A i \in 1 .. Len(log[c]) :
            (log[c][i].ev = "exchange_response" /\ ~IsSuccessStatus(log[c][i].st)
               /\ FirstAuth(c) # 0 /\ i > FirstAuth(c)) =>
                /\ i = Len(log[c])
                /\ i = FirstAuth(c) + 2
                /\ Done(c)
                /\ outcome[c].kind = "error"
                /\ outcome[c].cls = ExchangeFailureClass(log[c][i].st)
                /\ outcome[c].status = log[c][i].st
                /\ accessToken = log[c][FirstAuth(c) - 1].tok)
    /\ [][\A c \in Calls :
            (pc[c] = "refresh_token" /\ pc'[c] = "done") =>
                /\ accessToken' = accessToken
                /\ tokenExpiresAt' = tokenExpiresAt
                /\ Len(Evs(c, "request")') = Len(Evs(c, "request"))]_vars

C28_Witness ==
    \E c \in Calls :
        /\ Done(c)
        /\ FirstAuth(c) # 0
        /\ LastEv(log[c]).ev = "exchange_response"
        /\ LastEv(log[c]).st = 500
        /\ outcome[c].cls = "httpx.HTTPStatusError"
        /\ accessToken = log[c][FirstAuth(c) - 1].tok
        /\ accessToken # NoToken

\* C29: every resource request carries as bearer the accessToken of the
\* moment it is sent; the request repeated after a 401 carries the token the
\* refresh returned, and after a successful recovery accessToken is that
\* token.
C29_BearerIsCurrentToken ==
    /\ [][\A c \in Calls :
            (Len(log'[c]) > Len(log[c]) /\ LastEv(log'[c]).ev = "request") =>
                LastEv(log'[c]).tok = accessToken']_vars
    /\ [](\A c \in Calls : \A i \in 2 .. Len(log[c]) :
            (log[c][i].ev = "request" /\ log[c][i - 1].ev = "exchange_response") =>
                /\ IsSuccessStatus(log[c][i - 1].st)
                /\ log[c][i].tok = log[c][i - 1].tok
                /\ log[c][i].tok # NoToken)
    /\ [](\A c \in Calls :
            (FirstAuth(c) # 0 /\ Len(log[c]) >= FirstAuth(c) + 3) =>
                /\ log[c][FirstAuth(c) + 3].ev = "request"
                /\ log[c][FirstAuth(c) + 3].tok = log[c][FirstAuth(c) + 2].tok
                /\ accessToken = log[c][FirstAuth(c) + 2].tok)

C29_Witness ==
    \E c \in Calls :
        /\ Done(c)
        /\ Len(log[c]) = 6
        /\ log[c][1].ev = "request" /\ log[c][1].tok = "tokA"
        /\ log[c][2] = RespEv(401)
        /\ log[c][4] = ExchRespEv(200, "tokB")
        /\ log[c][5].ev = "request" /\ log[c][5].tok = "tokB"
        /\ log[c][6] = RespEv(200)
        /\ accessToken = "tokB"
        /\ outcome[c].kind = "ok"


\* The replies tr of a page request show a recovery: each reply but the
\* last is a >= 500 or a 401, and the last is a 200.
Recovered(tr) ==
    /\ Len(tr) >= 2
    /\ tr[Len(tr)].st = 200
    /\ \A i \in 1 .. Len(tr) - 1 : IsServerStatus(tr[i].st) \/ tr[i].st = 401

\* C30: pagination composes with the recovery of the transport: every HTTP
\* request of one page request, the repeated ones after a >= 500 or after a
\* 401 and its refresh included, carries the payload of that page request
\* with its page_token; the consumer receives the items of the pages in
\* order, each once, no page skipped or repeated.
C30_PaginationRecovers ==
    /\ \A i \in 1 .. Len(wire) : sent # <<>> /\ wire[i] = sent[Len(sent)]
    /\ gen = "awaiting" => Len(wire) = Len(Evs(DriverCall, "request"))
    /\ \A k \in 1 .. Len(pages) : \A i \in 1 .. Len(pages[k].items) :
          pages[k].items[i] = [page |-> k, pos |-> i]
    /\ Len(yielded) <= Len(DecodedItems(pages))
    /\ yielded = SubSeq(DecodedItems(pages), 1, Len(yielded))
    /\ \A i, j \in 1 .. Len(yielded) : yielded[i] = yielded[j] => i = j
    /\ (Recovered(traffic) /\ gen \in {"suspended", "finished", "closed"}) =>
          /\ Len(wire) = Len(traffic)
          /\ Len(sent) = Len(pages)
          /\ Len(yielded) >= Len(DecodedItems(SubSeq(pages, 1, Len(pages) - 1)))
                               + (IF gen = "finished" THEN Len(pages[Len(pages)].items) ELSE idx)

C30_Witness ==
    /\ gen = "finished"
    /\ Len(pages) = 2
    /\ Recovered(traffic)
    /\ traffic[1].st = 401
    /\ wire = <<sent[2], sent[2]>>
    /\ sent[2]["page_token"] = CursorStr(1)
    /\ Len(yielded) = 2
    /\ yielded[2].raw = [page |-> 2, pos |-> 1]

\* The JSON shape is not the one the response model asks for.
ShapeMismatch(shape, model) ==
    \/ model = "Model" /\ shape = "list"
    \/ model = "list[Model]" /\ shape = "dict"

\* C34: a 2xx response is the last event of its api_call; when its JSON has
\* not the shape the response model asks for (a list for a mapping or the
\* reverse), the call has ended with the shape error (TypeError): no request
\* is repeated, no backoff delay and no token exchange follow the response.
C34_ShapeMismatchFailsFast ==
    \A c \in Calls :
        /\ \A i \in 1 .. Len(log[c]) :
              (log[c][i].ev = "response" /\ IsSuccessStatus(log[c][i].st)) =>
                  (i = Len(log[c]) /\ Done(c))
        /\ (/\ Done(c)
            /\ EndsWithResponse(c)
            /\ IsSuccessStatus(log[c][Len(log[c])].st)
            /\ ShapeMismatch(last_reply[c].body.shape, response_model[c])) =>
               outcome[c] = Raise("TypeError", NoStatus, last_reply[c].body, "")
        /\ (Done(c) /\ outcome[c].cls = "TypeError") =>
               /\ EndsWithResponse(c)
               /\ ShapeMismatch(last_reply[c].body.shape, response_model[c])

\* A mapping is asked for, the first attempt is answered 200 with a list,
\* and the call has ended with retries left.
C34_Witness ==
    /\ Done("c1")
    /\ response_model["c1"] = "Model"
    /\ last_reply["c1"].body.shape = "list"
    /\ outcome["c1"].cls = "TypeError"
    /\ retries = MaxRetries
    /\ attempt["c1"] = 0
    /\ Len(Evs("c1", "request")) = 1
    /\ Evs("c1", "sleep") = <<>>

\* The step added the answer of a successful token exchange to the history
\* of call c, with the token tok.
ExchangeSucceeds(c, tok) ==
    /\ Len(log'[c]) > Len(log[c])
    /\ \E i \in Len(log[c]) + 1 .. Len(log'[c]) :
          /\ log'[c][i].ev = "exchange_response"
          /\ IsSuccessStatus(log'[c][i].st)
          /\ log'[c][i].tok = tok

\* C35: accessToken and tokenExpiresAt change only in a step in which a
\* token exchange succeeds, and then to the token of that exchange; a call
\* that started with a token more than 300 seconds from expiry and got no
\* 401 made no exchange, so from its first request to its end (success,
\* Validation, NotFound, Server after retries, Network) both fields are
\* what they were.
C35_TokenFrame ==
    /\ [][(accessToken' # accessToken \/ tokenExpiresAt' # tokenExpiresAt) =>
            \E c \in Calls :
                /\ pc[c] \in {"ensure_token", "refresh_token"}
                /\ ExchangeSucceeds(c, accessToken')]_vars
    /\ [](\A c \in Calls :
            (log[c] # <<>> /\ log[c][1].ev = "request" /\ FirstAuth(c) = 0) =>
                /\ Evs(c, "exchange") = <<>>
                /\ Evs(c, "exchange_response") = <<>>
                /\ \A i \in 1 .. Len(log[c]) :
                      log[c][i].ev = "request" => log[c][i].tok = accessToken)

\* A call that started with a usable token ended with a Server error after
\* its retries; the token is the one its first request carried.
C35_Witness ==
    /\ Done("c1")
    /\ log["c1"][1].ev = "request"
    /\ log["c1"][1].usable
    /\ outcome["c1"].cls = "FlanksServerError"
    /\ Len(Evs("c1", "response")) = retries + 1
    /\ retries > 0
    /\ accessToken = log["c1"][1].tok
    /\ accessToken # NoToken

\* C38: whatever the retry budget (0 included) and the responses, no
\* api_call ends with the RuntimeError of the line after the loop: a call
\* whose loop ran out, every attempt answered >= 500, has recorded the last
\* Server error and ends with it.
C38_NoUnexpectedState ==
    \A c \in Calls :
        /\ outcome[c].cls # "RuntimeError"
        /\ last_error[c].kind = "error" => last_error[c].cls = "FlanksServerError"
        /\ (/\ Done(c)
            /\ FirstAuth(c) = 0
            /\ Len(Evs(c, "response")) = retries + 1
            /\ AllServer(RespStatuses(c))) =>
               /\ last_error[c].kind = "error"
               /\ last_error[c].status = log[c][Len(log[c])].st
               /\ outcome[c] = last_error[c]

\* No retry is allowed and the only attempt is answered 503.
C38_Witness ==
    /\ retries = 0
    /\ Done("c1")
    /\ RespStatuses("c1") = <<503>>
    /\ outcome["c1"].cls = "FlanksServerError"
    /\ outcome["c1"].status = 503

\* C36: a single api_call sends at most retries + 2 resource requests and
\* makes at most 2 token exchanges, at most one before its first request
\* and at most one after a 401, on whichever attempt the 401 arrives; after
\* a 401 at most one more request is sent and no delay follows; and when
\* every round trip completes, a call in progress ends.
C36_BoundedCall ==
    /\ [](\A c \in Calls :
            /\ Len(Evs(c, "request")) <= retries + 2
            /\ Len(Evs(c, "exchange")) <= 2
            /\ FirstAuth(c) = 0 =>
                  /\ Len(Evs(c, "request")) <= retries + 1
                  /\ Len(Evs(c, "exchange")) <= 1
                  /\ \A i \in 1 .. Len(log[c]) : log[c][i].ev = "exchange" => i = 1
            /\ FirstAuth(c) # 0 =>
                  /\ CountBefore(c, FirstAuth(c), "exchange") <= 1
                  /\ CountAfter(c, FirstAuth(c), "exchange") <= 1
                  /\ CountAfter(c, FirstAuth(c), "request") <= 1
                  /\ CountAfter(c, FirstAuth(c), "response") <= 1
                  /\ CountAfter(c, FirstAuth(c), "sleep") = 0)
    /\ \A c \in Calls : (pc[c] \notin {"idle", "done"}) ~> Done(c)

\* The call made the exchange of _ensure_token, was answered 500 and then,
\* on its last attempt, 401; it made a second exchange and its last request:
\* retries + 2 requests and 2 exchanges.
C36_Witness ==
    /\ Done("c1")
    /\ retries = MaxRetries
    /\ Len(Evs("c1", "request")) = retries + 2
    /\ Len(Evs("c1", "exchange")) = 2
    /\ log["c1"][1].ev = "exchange"
    /\ RespStatuses("c1")[1] = 500
    /\ RespStatuses("c1")[retries + 1] = 401
    /\ CountBefore("c1", FirstAuth("c1"), "sleep") = retries

C31_PageErrorSurfaces ==
    /\ []((gen = "failed" /\ gen_error.cls \in Taxonomy) =>
            /\ Len(sent) = Len(pages) + 1
            /\ yielded = DecodedItems(pages)
            /\ asks = Len(yielded) + 1
            /\ pc[DriverCall] = "idle"
            /\ gen_error.cls = "FlanksServerError" =>
                  /\ traffic # <<>>
                  /\ traffic[Len(traffic)].st = gen_error.status)
    /\ [][(/\ gen = "awaiting"
           /\ Done(DriverCall)
           /\ outcome[DriverCall].kind = "error"
           /\ gen' # gen) =>
              (gen' = "failed" /\ gen_error' = outcome[DriverCall])]_vars
    /\ [][gen = "failed" =>
              /\ gen' = "failed"
              /\ gen_error' = gen_error
              /\ sent' = sent
              /\ yielded' = yielded
              /\ log' = log]_vars

\* The request for page 2 was answered 500 on every attempt: the consumer
\* holds the items of page 1 and gets the Server error on its next ask.
C31_Witness ==
    /\ gen = "failed"
    /\ gen_error.cls = "FlanksServerError"
    /\ Len(sent) = 2
    /\ Len(pages) = 1
    /\ Len(yielded) = MaxItems
    /\ asks = MaxItems + 1
    /\ Len(traffic) = retries + 1
    /\ AllServer([i \in 1 .. Len(traffic) |-> traffic[i].st])

\* C32: a fully consumed iteration ends when, and only when, a page whose
\* cursor is absent, null or "" has arrived, and no request follows that
\* page; after a page with a non-empty cursor the next request is always
\* made, with that cursor, also when it is the cursor that was just sent:
\* nothing in the driver bounds the number of requests or detects a cycle.
C32_EndsOnlyOnLastPage ==
    /\ [](gen \notin {"failed", "closed"})
    /\ [](gen = "finished" =>
            /\ pages # <<>>
            /\ \A i \in 1 .. Len(pages) : IsLastPage(pages[i]) <=> i = Len(pages)
            /\ yielded = DecodedItems(pages))
    /\ [](\A n \in 1 .. Len(pages) : IsLastPage(pages[n]) => Len(sent) = n)
    /\ \A n \in 1 .. MaxPages :
          (Len(pages) = n /\ IsLastPage(pages[n])) ~> (gen = "finished")
    /\ \A n \in 1 .. MaxPages - 1 :
          (Len(pages) = n /\ ~IsLastPage(pages[n]))
              ~> (Len(sent) = n + 1 /\ sent[n + 1]["page_token"] = pages[n].next)

\* The server handed out the same cursor after every request: the driver
\* has sent it back each time and has made every request the model allows.
C32_Witness ==
    /\ Len(sent) = MaxPages
    /\ Len(pages) = MaxPages
    /\ \A k \in 2 .. MaxPages : sent[k]["page_token"] = CursorStr(1)
    /\ \A k \in 1 .. MaxPages : pages[k].next = CursorStr(1)
    /\ gen = "running"
    /\ yielded = DecodedItems(pages)

\* The requests of the iteration with locals f, invoked with the template
\* of t, are what that iteration alone determines: the template is intact,
\* the first request carries page_token null and request k + 1 the cursor
\* of the k-th page of this iteration.
OwnCursor(f, t) ==
    /\ f.req_body = TemplateOf(t)
    /\ Len(f.pages) <= Len(f.sent)
    /\ \A k \in 1 .. Len(f.sent) :
          /\ f.sent[k]["query"] = TemplateOf(t)["query"]
          /\ f.sent[k]["page_token"] = IF k = 1 THEN PyNone ELSE f.pages[k - 1].next

\* C33: every invocation of _paginate sends page_token null in its first
\* request, whatever an earlier iteration on the client (completed,
\* abandoned or failed) reached; the template is never modified, also when
\* it has a page_token of its own; and of two iterations asked in turn each
\* sends only the cursors of its own pages, a step of one leaving the locals
\* of the other as they are.
C33_CursorPerIteration ==
    /\ [](OwnCursor(CurrentFrame, turn))
    /\ [](parked.gen # "absent" => OwnCursor(parked, Other(turn)))
    /\ [][turn' = turn => (parked' = parked /\ req_body' = req_body)]_vars
    /\ [][turn' # turn => (parked' = CurrentFrame /\ CurrentFrame' = parked)]_vars

\* The third invocation on the client, made after an earlier iteration was
\* over, has sent its first request with page_token null, while the other
\* generator is suspended after its second request, holding its cursor.
C33_Witness ==
    /\ runs = 3
    /\ gen = "awaiting"
    /\ Len(sent) = 1
    /\ sent[1]["page_token"] = PyNone
    /\ page_token = PyNone
    /\ parked.gen = "suspended"
    /\ Len(parked.sent) = 2
    /\ parked.sent[2]["page_token"] = CursorStr(1)
    /\ parked.page_token = CursorStr(1)

====
